---- MODULE Spec2Model ----
(***************************************************************************)
(* Table layout of document_generator.py: _render_table, _render_table_row *)
(* and _split_row_cells driving an FPDF page (cursor, font, automatic page *)
(* breaks), and make_brief_pdf, which builds the summary and storyboard    *)
(* lines and renders them around that table.                               *)
(*                                                                         *)
(* Units.  Vertical lengths are millimetres, as in the source.  Horizontal *)
(* lengths are quarter millimetres (Qmm), so that the width of a string is *)
(* an integer at every font size the code uses: a glyph is 1/4 mm wide per *)
(* point of font size (3 mm at 12 pt), the same for the regular and the    *)
(* bold face, which the program loads from one font file.  Scaled column   *)
(* widths are exact fractions: numerator col_widths[i], denominator        *)
(* total_width.                                                            *)
(***************************************************************************)
EXTENDS Integers, Sequences, FiniteSets, TLC

VARIABLES
    pc,           \* position in _render_table: "call", "header", "rows", "done", "raised";
                  \* in make_brief_pdf: "summary", "storyboard", "output"
    pdf,          \* the FPDF object: page, cursor, font, page geometry
    headers,      \* argument / local `headers`
    rows,         \* argument / local `rows`
    col_widths,   \* local `col_widths` after scaling: numerators, in Qmm
    total_width,  \* local `total_width`: the denominator of every col_widths[i]
    font_size,    \* local `font_size`
    row_i,        \* index of the next row of `for row in rows`
    log,          \* cells drawn so far, in drawing order
    measured,     \* what each _split_row_cells call of _render_table returned
    placed,       \* one record per row placed by _render_table_row, in order
    start,        \* the arguments of the call: the pdf as it was, headers, rows
    run,          \* 1 in the first call of _render_table, 2 in the repeated one
    first,        \* what the first call drew and how it ended
    text,         \* the text handed to _safe_multi_cell and _render_list_item
    brief,        \* the frame of make_brief_pdf: its lines, its index i, its pages
    ocr,          \* a call of normalize_ocr_keyframes: its argument and how it ended
    gemini,       \* a call of call_gemini_json: its arguments and how it ended
    session       \* app.py: st.session_state and what the last script run showed

vars == <<pc, pdf, headers, rows, col_widths, total_width, font_size, row_i, log,
          measured, placed, start, run, first, text, brief, ocr, gemini, session>>

\* What a call of _render_table does not touch.
caller == <<start, run, first, text, brief>>

\* What the paragraph and list helpers leave alone.
table_state == <<headers, rows, col_widths, total_width, font_size, row_i, measured,
                 placed>>

\* What document_generator.py does not touch.
app_state == <<ocr, gemini, session>>

\* What ai_analyzer.py and app.py do not touch.
document_state == <<pdf, table_state, log, caller>>

(***************************************************************************)
(* Bounds of the model                                                     *)
(***************************************************************************)
MaxRows == 3

(***************************************************************************)
(* Generic helpers                                                         *)
(***************************************************************************)
Max(a, b) == IF a >= b THEN a ELSE b

Min(a, b) == IF a <= b THEN a ELSE b

RECURSIVE SeqSum(_)
SeqSum(s) ==
    IF s = <<>> THEN 0
    ELSE IF Len(s) = 1 THEN s[1]
    ELSE SeqSum(SubSeq(s, 1, Len(s) \div 2)) + SeqSum(SubSeq(s, Len(s) \div 2 + 1, Len(s)))

RECURSIVE SeqMax(_)
SeqMax(s) ==
    IF s = <<>> THEN 0
    ELSE IF Len(s) = 1 THEN Max(s[1], 0)
    ELSE Max(SeqMax(SubSeq(s, 1, Len(s) \div 2)), SeqMax(SubSeq(s, Len(s) \div 2 + 1, Len(s))))

RECURSIVE SeqMin(_)
SeqMin(s) ==
    IF Len(s) = 1 THEN s[1]
    ELSE Min(SeqMin(SubSeq(s, 1, Len(s) \div 2)), SeqMin(SubSeq(s, Len(s) \div 2 + 1, Len(s))))

Qmm(mm) == 4 * mm

(***************************************************************************)
(* Cells and text measurement                                              *)
(***************************************************************************)
\* A text cell is its words (each a number of characters), joined by single spaces.
Text(ws) == [words |-> ws]

EmptyCell == Text(<<>>)

Chars(cell) ==
    IF cell.words = <<>> THEN 0 ELSE SeqSum(cell.words) + Len(cell.words) - 1

\* pdf.get_string_width(text) at font size `size`, in Qmm.
get_string_width(cell, size) == Chars(cell) * size

\* _IMAGE_CELL_HEIGHT: "fixed height for images in table cells", in mm.
IMAGE_CELL_HEIGHT == 30

IMAGE_EXTENSIONS == {".png", ".jpg", ".jpeg", ".gif", ".bmp"}

\* A cell {"image": path}.
ImageCell(path) == [image |-> path]

\* A string cell that reads as a file name or URL of n characters.
PathText(name, n) == [words |-> <<n>>, name |-> name]

\* Path(cell).suffix.lower() of the file names the model uses.
PathSuffix(name) ==
    CASE name = "wide.png"          -> ".png"
      [] name = "pano.PNG"          -> ".png"
      [] name = "gone.png"          -> ".png"
      [] name = "http://cdn/t.jpg"  -> ".jpg"
      [] OTHER                      -> ""

\* _get_image_path(cell): the path when the cell is an image, "" for None.
get_image_path(cell) ==
    IF "image" \in DOMAIN cell THEN cell.image
    ELSE IF "name" \in DOMAIN cell /\ PathSuffix(cell.name) \in IMAGE_EXTENSIONS
    THEN cell.name
    ELSE ""

\* The image files that exist, with their intrinsic size in pixels.  Any other
\* path makes Image.open raise (FileNotFoundError).
ImageFiles ==
    [name \in {"wide.png", "pano.PNG"} |->
        IF name = "wide.png" THEN [width |-> 400, height |-> 300]
                             ELSE [width |-> 900, height |-> 300]]

CanOpen(path) == path \in DOMAIN ImageFiles

\* _IMAGE_CELL_HEIGHT * im.width / im.height, in Qmm (exact for ImageFiles).
ImageWidth(path) ==
    (Qmm(IMAGE_CELL_HEIGHT) * ImageFiles[path].width) \div ImageFiles[path].height

\* ceil(a / b) for positive integers.
Ceil(a, b) == (a + b - 1) \div b

\* FPDF's cell margin (1 mm): multi_cell wraps text to w - 2 * c_margin.
c_margin == Qmm(1)

\* Variant: wraps to the full column width, forgetting the cell margins.
MaxChars_nomargin(cw_num, den, size) == cw_num \div (size * den)

\* Characters that fit on one line of a column of width cw_num / den at `size`.
MaxChars(cw_num, den, size) ==
    LET room == cw_num - 2 * c_margin * den
    IN  IF room < 0 THEN 0 ELSE room \div (size * den)

\* Variant: breaks at spaces only, never inside a word.
RECURSIVE WrapFrom_nosplit(_, _, _, _)
WrapFrom_nosplit(words, i, cur, K) ==
    IF i > Len(words)
    THEN IF cur > 0 THEN <<cur>> ELSE <<>>
    ELSE IF cur > 0 /\ cur + 1 + words[i] <= K
    THEN WrapFrom_nosplit(words, i + 1, cur + 1 + words[i], K)
    ELSE (IF cur > 0 THEN <<cur>> ELSE <<>>) \o WrapFrom_nosplit(words, i + 1, words[i], K)

\* The greedy line breaking of multi_cell: break at the last space, and inside a
\* word only when the word alone is longer than a line.  Result: the lines'
\* lengths in characters.
RECURSIVE WrapFrom(_, _, _, _)
WrapFrom(words, i, cur, K) ==
    IF i > Len(words)
    THEN IF cur > 0 THEN <<cur>> ELSE <<>>
    ELSE LET L == words[i]
         IN  IF cur > 0 /\ cur + 1 + L <= K
             THEN WrapFrom(words, i + 1, cur + 1 + L, K)
             ELSE LET closed == IF cur > 0 THEN <<cur>> ELSE <<>>
                      full   == (L - 1) \div K
                  IN  closed \o [j \in 1..full |-> K]
                             \o WrapFrom(words, i + 1, L - full * K, K)

\* The lines of a non-empty text when K characters fit on a line.
WrapTo(cell, K) ==
    IF Chars(cell) = 0 THEN [raised |-> FALSE, lines |-> <<>>]
    ELSE IF K < 1 THEN [raised |-> TRUE, lines |-> <<>>]
    ELSE [raised |-> FALSE, lines |-> WrapFrom(cell.words, 1, 0, K)]

\* pdf.multi_cell(cw, line_height, text, split_only=True): the wrapped lines, or
\* FPDFException when not even one character fits.
multi_cell_split(cell, cw_num, den, size) == WrapTo(cell, MaxChars(cw_num, den, size))

(***************************************************************************)
(* The FPDF object                                                         *)
(***************************************************************************)
\* pdf.set_font("DejaVu", style=..., size=...)
set_font(p, style, size) == [p EXCEPT !.style = style, !.size = size]

\* pdf.add_page(): the next page, cursor at the left and top margins.
add_page(p) == [p EXCEPT !.page = @ + 1, !.x = p.l_margin, !.y = p.t_margin]

\* pdf.set_xy(x, y)
set_xy(p, x, y) == [p EXCEPT !.x = x, !.y = y]

(***************************************************************************)
(* _split_row_cells                                                        *)
(***************************************************************************)
\* try: lines = pdf.multi_cell(...); except FPDFException: lines = [text]
LinesOrText(cell, r) == IF r.raised THEN <<Chars(cell)>> ELSE r.lines

\* The entry of a text cell in `images`.
NoImage == [image |-> "", width |-> 0, height |-> 0]

\* The dict _split_row_cells appends for an image cell: {"image", "width",
\* "height"}; the file was opened by the width computation before.
ImageEntry(cell) ==
    IF get_image_path(cell) = "" THEN NoImage
    ELSE [image |-> get_image_path(cell), width |-> ImageWidth(get_image_path(cell)),
          height |-> IMAGE_CELL_HEIGHT]

\* One cell of _split_row_cells, measured in the font of pdf p: the lines of a
\* text cell; an image cell has no lines, its dict is ImageEntry(cell).
SplitCell(p, cell, cw_num, den) ==
    IF get_image_path(cell) # "" THEN <<>>
    ELSE LinesOrText(cell, multi_cell_split(cell, cw_num, den, p.size))

\* Variant: rounds the image's height down to whole lines.
LineCount_floor(lines, img, line_height) ==
    IF img.image # "" THEN img.height \div line_height ELSE Len(lines)

\* What a cell adds to max_lines: math.ceil(_IMAGE_CELL_HEIGHT / line_height)
\* for an image, len(lines) for a text.
LineCount(lines, img, line_height) ==
    IF img.image # "" THEN Ceil(img.height, line_height) ELSE Len(lines)

\* return cell_lines, line_height * max_lines.  The list the code returns holds
\* the lines of text cell i as cell_lines[i] and the dict of image cell i as
\* images[i].
RowOfLines(cell_lines, images, line_height) ==
    [cell_lines |-> cell_lines,
     images     |-> images,
     row_height |-> line_height
                    * Max(1, SeqMax([i \in 1..Len(cell_lines) |->
                                        LineCount(cell_lines[i], images[i], line_height)]))]

split_row_cells(p, cells, cws, den, line_height) ==
    RowOfLines([i \in 1..Min(Len(cells), Len(cws)) |-> SplitCell(p, cells[i], cws[i], den)],
               [i \in 1..Min(Len(cells), Len(cws)) |-> ImageEntry(cells[i])],
               line_height)

(***************************************************************************)
(* _render_table_row                                                       *)
(***************************************************************************)
\* The cell drawn by multi_cell once the page is settled: p1 is the pdf at the
\* cell's position.  s = [pdf, log, raised]; tag names the cell and holds its x.
DrawLine(s, p1, chars, line_height, tag) ==
    [s EXCEPT !.pdf = [p1 EXCEPT !.y = @ + line_height],
              !.log = Append(@, [kind |-> tag.kind, row |-> tag.row, line |-> tag.line,
                                 col |-> tag.col, page |-> p1.page,
                                 x_num |-> tag.x_num, w_num |-> tag.w_num,
                                 y |-> p1.y, h |-> line_height,
                                 chars |-> chars, style |-> p1.style,
                                 size |-> p1.size, border |-> tag.border])]

\* pdf.set_xy(x, y); pdf.multi_cell(cw, line_height, txt, border): raises
\* FPDFException when txt has a character that does not fit the column; starts a
\* new page first (automatic page break) when the line would pass the trigger.
multi_cell_draw(s, y, chars, cw_num, den, line_height, tag) ==
    IF s.raised THEN s
    ELSE IF chars > 0 /\ MaxChars(cw_num, den, s.pdf.size) < 1
    THEN [s EXCEPT !.raised = TRUE]
    ELSE DrawLine(s,
                  IF y + line_height > s.pdf.trigger
                  THEN add_page(s.pdf) ELSE set_xy(s.pdf, s.pdf.x, y),
                  chars, line_height, tag)

\* Lines 350-357: the borders of slot line_idx of a row of max_lines slots.
Border(line_idx, max_lines) ==
    IF line_idx = 0 /\ max_lines = 1 THEN "LTRB"
    ELSE IF line_idx = 0 THEN "LTR"
    ELSE IF line_idx = max_lines - 1 THEN "LBR"
    ELSE "LR"

\* txt = lines[line_idx] if line_idx < len(lines) else ""
LineText(lines, line_idx) == IF line_idx < Len(lines) THEN lines[line_idx + 1] ELSE 0

\* x of cell idx: x_start plus the widths of the cells before it (x += cw), over den.
CellX(c, idx) == c.x_start * c.den + SeqSum(SubSeq(c.cws, 1, idx - 1))

\* img_w = min(lines["width"], cw - 2), over den.
ClampedWidth(img, cw_num, den) == Min(img.width * den, cw_num - Qmm(2) * den)

\* Lines 342-346 for the image cell idx: pdf.rect(x, y_start, cw, row_height),
\* then pdf.image(path, x=img_x, y=img_y, h=height).  No width is passed, so the
\* image is drawn `drawn_w` = height * intrinsic width / intrinsic height wide.
\* x_num, y, h are the rectangle; img_x2 over 2 * den and img_y2 over 2 are the
\* image's corner.  Neither call moves the cursor or breaks the page.
DrawImage(s, idx, c) ==
    [s EXCEPT !.log =
        Append(@, [kind |-> c.kind, row |-> c.row, line |-> 0, col |-> idx,
                   page |-> s.pdf.page, x_num |-> CellX(c, idx), w_num |-> c.cws[idx],
                   y |-> c.y_start,
                   h |-> c.row_height, chars |-> 0,
                   style |-> s.pdf.style, size |-> s.pdf.size,
                   image |-> c.images[idx].image,
                   img_w_num |-> ClampedWidth(c.images[idx], c.cws[idx], c.den),
                   img_x2 |-> 2 * CellX(c, idx) + c.cws[idx]
                              - ClampedWidth(c.images[idx], c.cws[idx], c.den),
                   img_y2 |-> 2 * c.y_start + c.row_height - c.images[idx].height,
                   img_h |-> c.images[idx].height,
                   drawn_w |-> c.images[idx].width])]

\* Cell (line_idx, idx) of the two nested loops: an image cell is drawn when
\* line_idx is 0 and skipped on the other lines, a text cell draws its line.
RenderCell(s, line_idx, idx, c) ==
    IF c.images[idx].image # ""
    THEN IF line_idx = 0 THEN DrawImage(s, idx, c) ELSE s
    ELSE multi_cell_draw(s, c.y_start + line_idx * c.line_height,
                         LineText(c.cell_lines[idx], line_idx), c.cws[idx], c.den,
                         c.line_height,
                         [kind |-> c.kind, row |-> c.row, line |-> line_idx, col |-> idx,
                          x_num |-> CellX(c, idx), w_num |-> c.cws[idx],
                          border |-> Border(line_idx, c.max_lines)])

\* The inner loop of _render_table_row: the cells of line line_idx from idx on.
RECURSIVE RenderLineCells(_, _, _, _)
RenderLineCells(s, line_idx, idx, c) ==
    IF idx > c.n \/ s.raised THEN s
    ELSE RenderLineCells(RenderCell(s, line_idx, idx, c), line_idx, idx + 1, c)

\* The two nested loops of _render_table_row, from line k of max_lines on.
RECURSIVE RenderCells(_, _, _)
RenderCells(s, k, c) ==
    IF k >= c.max_lines \/ s.raised THEN s
    ELSE RenderCells(RenderLineCells(s, k, 1, c), k + 1, c)

\* pdf.set_xy(x_start, y_start + row_height); return row_height
RowResult(p, sp, s) ==
    [pdf |-> IF s.raised THEN s.pdf ELSE set_xy(s.pdf, p.x, p.y + sp.row_height),
     log |-> s.log, raised |-> s.raised, row_height |-> sp.row_height,
     x_start |-> p.x, y_start |-> p.y, page_start |-> p.page]

\* _render_table_row after its call of _split_row_cells returned sp.
RenderSplitRow(p, lg, sp, cws, den, line_height, kind, row) ==
    RowResult(p, sp,
              RenderCells([pdf |-> p, log |-> lg, raised |-> FALSE], 0,
                          [cell_lines |-> sp.cell_lines, images |-> sp.images,
                           n |-> Len(sp.cell_lines),
                           max_lines |-> sp.row_height \div line_height,
                           row_height |-> sp.row_height,
                           x_start |-> p.x, y_start |-> p.y,
                           line_height |-> line_height, cws |-> cws, den |-> den,
                           kind |-> kind, row |-> row]))

\* _render_table_row(pdf, cells, col_widths, line_height); kind and row only
\* label the log.  Result: [pdf, log, raised, row_height, x_start, y_start, page_start].
render_table_row(p, lg, cells, cws, den, line_height, kind, row) ==
    RenderSplitRow(p, lg, split_row_cells(p, cells, cws, den, line_height), cws, den,
                   line_height, kind, row)

(***************************************************************************)
(* Paragraphs and list items                                               *)
(***************************************************************************)
\* The lines of a text block from line k on, each drawn where the cursor is
\* (FPDF breaks the page before a line that would pass the trigger).
RECURSIVE DrawLines(_, _, _, _, _, _)
DrawLines(s, lines, k, w, h, tag) ==
    IF k > Len(lines) \/ s.raised THEN s
    ELSE DrawLines(multi_cell_draw(s, s.pdf.y, lines[k], w, 1, h,
                                   [tag EXCEPT !.line = k - 1]),
                   lines, k + 1, w, h, tag)

\* pdf.multi_cell draws one empty line for an empty text.
BlockLines(r) == IF r.lines = <<>> THEN <<0>> ELSE r.lines

MultiCellLines(s, r, w, h, tag) ==
    IF r.raised THEN [s EXCEPT !.raised = TRUE]
    ELSE DrawLines(s, BlockLines(r), 1, w, h, tag)

\* pdf.multi_cell(w, h, text) at the cursor, w in Qmm.
multi_cell(s, w, h, cell, tag) ==
    MultiCellLines(s, multi_cell_split(cell, w, 1, s.pdf.size), w, h, tag)

\* LineWrapper.wrap of the specification: greedy, character by character for a
\* word wider than max_width, nothing when max_width holds no character.
SpecWrap(cell, max_width, size) ==
    IF Chars(cell) = 0 \/ max_width \div size < 1 THEN <<>>
    ELSE WrapFrom(cell.words, 1, 0, max_width \div size)

\* _safe_multi_cell(pdf, w, h, text): the paragraph's lines, wrapped to w,
\* placed one by one from the left margin; the cursor ends below them.
safe_multi_cell(s, w, h, cell) ==
    DrawLines([s EXCEPT !.pdf.x = s.pdf.l_margin],
              SpecWrap(cell, w, s.pdf.size), 1, w, h,
              [kind |-> "para", row |-> 0, line |-> 0, col |-> 0,
               x_num |-> s.pdf.l_margin, w_num |-> w, border |-> ""])

\* bullet_str = f"{bullet} ": the bullet "-" and a space.
bullet_str == [words |-> <<1>>, trailing |-> 1]

\* indent = pdf.get_string_width(bullet_str): the trailing space counts.
Indent(p) == (Chars(bullet_str) + bullet_str.trailing) * p.size

\* Variant: gives the item's text the whole width, not what the bullet leaves.
ItemWidth_full(p) == p.epw

\* max_width = epw - indent
ItemWidth(p) == p.epw - Indent(p)

\* pdf.cell(indent, line_height, bullet_str): one cell at the cursor, on a new
\* page when it would pass the trigger; the cursor moves to the cell's right.
BulletCell(s, line_height) ==
    [pdf |-> [(IF s.pdf.y + line_height > s.pdf.trigger
               THEN [add_page(s.pdf) EXCEPT !.x = s.pdf.x] ELSE s.pdf)
              EXCEPT !.x = @ + Indent(s.pdf)],
     raised |-> FALSE,
     log |-> Append(s.log,
                [kind |-> "bullet", row |-> 0, line |-> 0, col |-> 0,
                 page |-> IF s.pdf.y + line_height > s.pdf.trigger
                          THEN s.pdf.page + 1 ELSE s.pdf.page,
                 x_num |-> s.pdf.x, w_num |-> Indent(s.pdf),
                 y |-> IF s.pdf.y + line_height > s.pdf.trigger
                       THEN s.pdf.t_margin ELSE s.pdf.y,
                 h |-> line_height, chars |-> Chars(bullet_str) + bullet_str.trailing,
                 style |-> s.pdf.style, size |-> s.pdf.size, border |-> ""])]

\* pdf.multi_cell(max_width, line_height, text) to the right of the bullet.
ItemText(s, line_height, cell) ==
    multi_cell(s, ItemWidth(s.pdf), line_height, cell,
               [kind |-> "item", row |-> 0, line |-> 0, col |-> 1,
                x_num |-> s.pdf.x, w_num |-> ItemWidth(s.pdf), border |-> ""])

\* _render_list_item(pdf, text), line_height = 6.
render_list_item(s, cell) == ItemText(BulletCell(s, 6), 6, cell)

(***************************************************************************)
(* _render_table: column widths and font size                              *)
(***************************************************************************)
\* Variant: takes the number of headers for the number of columns.
col_count_of_headers(hs, rs) == Len(hs)

\* col_count = max(len(headers), max(len(r) for r in rows), default 0)
col_count_of(hs, rs) == Max(Len(hs), SeqMax([r \in 1..Len(rs) |-> Len(rs[r])]))

\* r + [""] * (col_count - len(r))
PadRow(r, n) == r \o [j \in 1..(n - Len(r)) |-> EmptyCell]

\* Lines 390-395: w of one cell, the image's scaled width or the text's width
\* plus 4, measured at the 12 pt regular font set before the loop.
CellWidth(p, cell) ==
    IF get_image_path(cell) # "" THEN ImageWidth(get_image_path(cell))
    ELSE get_string_width(cell, p.size) + Qmm(4)

\* The inner loop over one column: max_w = max(w).
ColumnMaxW(p, hs, rs, idx) ==
    LET column == <<hs[idx]>> \o [r \in 1..Len(rs) |-> rs[r][idx]]
    IN  SeqMax([k \in 1..Len(column) |-> CellWidth(p, column[k])])

\* Line 392 raises: some cell of the table is an image whose file cannot be opened.
ImageOpenRaises(hs, rs) ==
    \E cell \in { hs[i] : i \in 1..Len(hs) }
                 \cup UNION { { rs[r][i] : i \in 1..Len(rs[r]) } : r \in 1..Len(rs) } :
        get_image_path(cell) # "" /\ ~CanOpen(get_image_path(cell))

\* Variant: scales by the widest column instead of the sum of the columns.
TotalWidth_max(ws, epw) == IF SeqMax(ws) = 0 THEN epw ELSE SeqMax(ws)

\* total_width = sum(col_widths) or epw
TotalWidth(ws, epw) == IF SeqSum(ws) = 0 THEN epw ELSE SeqSum(ws)

\* col_widths = [w * scale for w in col_widths], scale = epw / total_width:
\* the numerators over the denominator TotalWidth(ws, epw).
ScaleWidths(ws, epw) == [i \in 1..Len(ws) |-> ws[i] * epw]

\* "Reduce font size when columns get narrow"; cws / den are the scaled widths.
FontSizeFor(cws, den, epw) ==
    LET narrower(mm) == IF cws = <<>> THEN epw < Qmm(mm)
                        ELSE SeqMin(cws) < Qmm(mm) * den
    IN  IF narrower(15) THEN 6
        ELSE IF narrower(20) THEN 8
        ELSE IF narrower(25) THEN 10
        ELSE 12

\* line_height = font_size * 0.5
LineHeight(size) == size \div 2

(***************************************************************************)
(* Strings of make_brief_pdf                                               *)
(*                                                                         *)
(* A string is a sequence of tokens; a token is a run of characters that   *)
(* the code never looks into (a word), or one of the characters it looks   *)
(* for: a space, a newline, a pipe.  c is the token's text, n its length.  *)
(***************************************************************************)
Tok(c, n) == [c |-> c, n |-> n]

Lit(c) == Tok(c, Len(c))

SP == Tok(" ", 1)

NL == Tok("\n", 1)

PIPE == Tok("|", 1)

\* The en dash U+2013: one character, not a hyphen.
EN_DASH == Tok("U+2013", 1)

\* A word of n letters.
Letters(n) == Tok("x", n)

RECURSIVE Join(_, _)
\* sep.join(parts)
Join(parts, sep) ==
    IF parts = <<>> THEN <<>>
    ELSE IF Len(parts) = 1 THEN parts[1]
    ELSE parts[1] \o sep \o Join(Tail(parts), sep)

\* Literal words with single spaces between them.
Phrase(ws) == Join([j \in 1..Len(ws) |-> <<Lit(ws[j])>>], <<SP>>)

\* k words of n letters each, with single spaces between them.
Sentence(k, n) == [j \in 1..(2 * k - 1) |-> IF j % 2 = 1 THEN Letters(n) ELSE SP]

IsSpace(t) == t \in {SP, NL}

RECURSIVE lstrip(_, _)
\* s.lstrip(chars), chars a set of one-character tokens
lstrip(s, chars) ==
    IF s # <<>> /\ Head(s) \in chars THEN lstrip(Tail(s), chars) ELSE s

RECURSIVE rstrip(_, _)
rstrip(s, chars) ==
    IF s # <<>> /\ s[Len(s)] \in chars THEN rstrip(SubSeq(s, 1, Len(s) - 1), chars) ELSE s

\* s.strip()
strip(s) == rstrip(lstrip(s, {SP, NL}), {SP, NL})

\* s.strip("|")
strip_pipes(s) == rstrip(lstrip(s, {PIPE}), {PIPE})

\* The positions of the tokens of s that are in seps, in increasing order.
SepPositions(s, seps) ==
    LET at == { k \in 1..Len(s) : s[k] \in seps }
    IN  [j \in 1..Cardinality(at) |->
            CHOOSE k \in at : Cardinality({ m \in at : m < k }) = j - 1]

\* The pieces of s between the positions pos.
PiecesAt(s, pos) ==
    [j \in 1..(Len(pos) + 1) |->
        SubSeq(s, IF j = 1 THEN 1 ELSE pos[j - 1] + 1,
                  IF j > Len(pos) THEN Len(s) ELSE pos[j] - 1)]

\* The pieces of s between its tokens that are in seps.
Pieces(s, seps) == PiecesAt(s, SepPositions(s, seps))

\* s.split(sep), sep a one-character token
split(s, sep) == Pieces(s, {sep})

\* s.startswith(prefix), prefix a sequence of tokens
startswith(s, prefix) == Len(s) >= Len(prefix) /\ SubSeq(s, 1, Len(prefix)) = prefix

\* s[k:] for a prefix of k tokens
Drop(s, k) == SubSeq(s, k + 1, Len(s))

\* The lengths of the words of s: a word is a run of tokens without a space.
WordLens(s) ==
    LET runs == SelectSeq(Pieces(s, {SP, NL}), LAMBDA r : r # <<>>)
    IN  [j \in 1..Len(runs) |-> SeqSum([k \in 1..Len(runs[j]) |-> runs[j][k].n])]

\* The string as the text pdf.multi_cell and _get_image_path get: its words,
\* and its last token, which holds the suffix Path(cell).suffix reads.
CellOf(s) ==
    IF s = <<>> THEN EmptyCell ELSE [words |-> WordLens(s), name |-> s[Len(s)].c]
(***************************************************************************)
(* _scenes_table, _parse_table_block, _max_table_columns                   *)
(***************************************************************************)
\* Values of start_s and end_s: a missing key (None), a number given in
\* thousandths of a second and not negative, a text that is not a number.
None == [kind |-> "None"]

Num(milli) == [kind |-> "float", milli |-> milli]

NotANumber == [kind |-> "str"]

\* _num(x): float(x), None when float raises
num(x) == IF x.kind = "float" THEN x ELSE None

\* Hundredths nearest to milli thousandths (the model has no tie: no value ends in 5).
Cents(milli) == (milli + 5) \div 10

Two(n) == IF n < 10 THEN "0" \o ToString(n) ELSE ToString(n)

\* f"{x:.2f}"
Fmt2(x) == Lit(ToString(Cents(x.milli) \div 100) \o "." \o Two(Cents(x.milli) % 100))

\* f"{start:.2f}–{end:.2f}" if start is not None and end is not None else ""
TimestampOf(from, to) ==
    IF from # None /\ to # None THEN <<Fmt2(from), EN_DASH, Fmt2(to)>> ELSE <<>>

\* _safe(x) of a string: x.replace("\n", " ").strip()
safe(x) == strip([j \in 1..Len(x) |-> IF x[j] = NL THEN SP ELSE x[j]])

\* "| {} | {} | ... | {} |".format(*fields)
FormatRow(fields) ==
    <<PIPE>> \o Join([j \in 1..Len(fields) |-> <<SP>> \o fields[j] \o <<SP>>], <<PIPE>>)
             \o <<PIPE>>

\* thumb = s.get("reference_thumbnail") or s.get("thumbnail_url") or ... or ""
ThumbOf(s) == s.thumbnail_url

\* The line of one scene; the scenes of the model have no on_screen_text.
SceneLine(s) ==
    FormatRow(<<safe(TimestampOf(num(s.start_s), num(s.end_s))), safe(s.shot),
                safe(s.framing), safe(s.action), safe(s.dialogue_vo), safe(<<>>),
                safe(ThumbOf(s))>>)

SceneHeaders ==
    << <<"Timestamp">>, <<"Shot", "Type">>, <<"Framing">>, <<"Action">>, <<"Dialogue">>,
       <<"On-Screen", "Text">>, <<"Reference", "Thumbnail", "Screenshot">> >>

\* "| Timestamp | Shot Type | ... | Reference Thumbnail Screenshot |"
HeaderLine == FormatRow([j \in 1..Len(SceneHeaders) |-> Phrase(SceneHeaders[j])])

\* "|---|---|---|---|---|---|---|"
SeparatorLine ==
    <<PIPE>> \o Join([j \in 1..Len(SceneHeaders) |-> <<Lit("---")>>], <<PIPE>>) \o <<PIPE>>

\* _scenes_table(analyzer), scenes = analyzer.get("scenes", []) or []
scenes_table(scenes) ==
    IF scenes = <<>>
    THEN << Phrase(<<"###", "Scene-by-Scene", "(Reference", "Video)">>), <<>>,
            Phrase(<<">", "No", "scenes", "provided.">>) >>
    ELSE << Phrase(<<"###", "Scene-by-Scene", "(Reference", "Video)">>), <<>>,
            HeaderLine, SeparatorLine >>
         \o [k \in 1..Len(scenes) |-> SceneLine(scenes[k])]

\* _TABLE_SEPARATOR_RE.match(line): a pipe, then one or more groups of dashes
\* (with optional colons and spaces around) each closed by a pipe.
IsSeparator(line) ==
    LET t == SelectSeq(line, LAMBDA tok : ~IsSpace(tok))
    IN  /\ startswith(line, <<PIPE>>)
        /\ Len(t) >= 3
        /\ Len(t) % 2 = 1
        /\ \A j \in 1..Len(t) :
              IF j % 2 = 1 THEN t[j] = PIPE
              ELSE t[j].c \in {"-", "--", "---", ":---", "---:", ":---:"}

\* line.startswith("|") and i + 1 < len(lines) and the next line is a separator
IsTableStart(lines, i) ==
    /\ startswith(lines[i], <<PIPE>>)
    /\ i + 1 <= Len(lines)
    /\ IsSeparator(lines[i + 1])

\* [c.strip() for c in line.strip().strip("|").split("|")]
ParseRow(line) ==
    LET cs == split(strip_pipes(strip(line)), PIPE)
    IN  [j \in 1..Len(cs) |-> strip(cs[j])]

RECURSIVE TableEnd(_, _)
\* while i < len(lines) and lines[i].startswith("|"): i += 1
TableEnd(lines, i) ==
    IF i <= Len(lines) /\ startswith(lines[i], <<PIPE>>) THEN TableEnd(lines, i + 1) ELSE i

\* _parse_table_block(lines, start): the header cells, the rows' cells and the
\* index of the line after the table (indexes from 1).
parse_table_block(lines, from) ==
    [headers |-> ParseRow(lines[from]),
     rows |-> [k \in 1..(TableEnd(lines, from + 2) - from - 2) |->
                   ParseRow(lines[from + 1 + k])],
     next |-> TableEnd(lines, from + 2)]

RECURSIVE MaxCols(_, _, _)
\* The loop of _max_table_columns from line i on; in_table inside a table's rows.
MaxCols(lines, i, in_table) ==
    IF i > Len(lines) THEN 0
    ELSE IF in_table /\ startswith(lines[i], <<PIPE>>)
    THEN Max(Len(ParseRow(lines[i])), MaxCols(lines, i + 1, TRUE))
    ELSE IF IsTableStart(lines, i)
    THEN Max(Len(ParseRow(lines[i])), MaxCols(lines, i + 2, TRUE))
    ELSE MaxCols(lines, i + 1, FALSE)

\* _max_table_columns("\n".join(storyboard_lines))
max_table_columns(lines) == MaxCols(split(Join(lines, <<NL>>), NL), 1, FALSE)
(***************************************************************************)
(* make_brief_pdf: the summary lines and the rendering of one line         *)
(***************************************************************************)
PARA_SPACING == 5

SECTION_SPACING == 4

\* column_threshold: int = 8
column_threshold == 8

\* The em dash U+2014 of the section title.
EM_DASH == Tok("U+2014", 1)

\* _append_list(lines, items, bullet="- "): one line per item that is not blank
AppendList(items) ==
    LET kept == SelectSeq(items, LAMBDA it : strip(it) # <<>>)
    IN  [j \in 1..Len(kept) |-> <<Lit("-"), SP>> \o strip(kept[j])]

\* "(none)" for an empty text: promise or "(none)"
OrNone(s) == IF s = <<>> THEN Phrase(<<"(none)">>) ELSE s

\* _analyzer_global_summary(analyzer) for an analyzer with no video_metadata and
\* a global_style that holds at most a promise.
analyzer_global_summary(promise) ==
    << <<Lit("**Platform**:"), SP>>,
       Phrase(<<"**Duration**:", "(unknown)">>),
       Phrase(<<"**Aspect", "Ratio**:">>) \o <<SP>>,
       <<>>,
       Phrase(<<"**Hook", "Type(s)**:", "(none)">>),
       <<Lit("**Promise**:"), SP>> \o OrNone(promise),
       Phrase(<<"**Payoff**:", "(none)">>),
       Phrase(<<"**Core", "CTA**:", "(none)">>),
       <<>>,
       <<Lit("**Music**:"), SP, SP, Lit("BPM")>> >>

\* Lines 136-160: the summary lines for product_facts that hold at most
\* approved_claims, and the default title.
SummaryLines(approved_claims, promise) ==
    << Phrase(<<"#", "AI-Generated", "Influencer", "Brief">>), <<>>,
       Phrase(<<"##", "Product", "Facts", "(Claims", "Whitelist)">>) >>
    \o AppendList(approved_claims)
    \o << <<>>,
          <<Lit("##"), SP, Lit("Reference"), SP, Lit("Video"), SP, EM_DASH, SP,
            Lit("Director"), SP, Lit("Breakdown")>> >>
    \o analyzer_global_summary(promise)
    \o << <<>> >>

\* orientation[0].upper() of the values the callers pass
FirstUpper(given) ==
    CASE given \in {"L", "l", "landscape"} -> "L"
      [] given \in {"P", "p", "portrait"}  -> "P"

\* Variant: landscape already when a table has column_threshold columns.
OrientationOf_ge(given, storyboard_lines) ==
    IF given = ""
    THEN (IF max_table_columns(storyboard_lines) >= column_threshold THEN "L" ELSE "P")
    ELSE FirstUpper(given)

\* Lines 168-172; given = "" stands for orientation=None.
OrientationOf(given, storyboard_lines) ==
    IF given = ""
    THEN (IF max_table_columns(storyboard_lines) > column_threshold THEN "L" ELSE "P")
    ELSE FirstUpper(given)

\* FPDF's default page, A4, in mm.
PageOf(orientation) ==
    IF orientation = "L" THEN [w |-> 297, h |-> 210] ELSE [w |-> 210, h |-> 297]

\* pdf.ln(h): to the left margin, h lower; never breaks the page.
ln(s, h) == [s EXCEPT !.pdf.x = s.pdf.l_margin, !.pdf.y = @ + h]

\* After pdf.multi_cell the cursor is at the right of the cell (new_x=RIGHT,
\* fpdf2's default) and below it; x0 is the cell's left edge.
CursorRight(s, x0, w) == IF s.raised THEN s ELSE [s EXCEPT !.pdf.x = x0 + w]

\* pdf.multi_cell(pdf.epw, h, text) at the cursor
Paragraph(s, h, cell, kind) ==
    CursorRight(multi_cell(s, s.pdf.epw, h, cell,
                           [kind |-> kind, row |-> 0, line |-> 0, col |-> 0,
                            x_num |-> s.pdf.x, w_num |-> s.pdf.epw, border |-> ""]),
                s.pdf.x, s.pdf.epw)

\* pdf.set_font(size); pdf.multi_cell(pdf.epw, h, text); pdf.set_font(12)
Heading(s, size, h, cell, kind) ==
    LET r == Paragraph([s EXCEPT !.pdf = set_font(@, "", size)], h, cell, kind)
    IN  IF r.raised THEN r ELSE [r EXCEPT !.pdf = set_font(@, "", 12)]

\* Lines 198-216 (and 237-255): one line that is not part of a table.
RenderLine(s, line) ==
    IF strip(line) = <<>> THEN ln(s, PARA_SPACING)
    ELSE IF startswith(line, <<Lit("#"), SP>>)
    THEN Heading(s, 16, 8, CellOf(strip(Drop(line, 2))), "h1")
    ELSE IF startswith(line, <<Lit("##"), SP>>)
    THEN Heading(s, 14, 7, CellOf(strip(Drop(line, 2))), "h2")
    ELSE IF startswith(line, <<Lit("###"), SP>>)
    THEN Paragraph([s EXCEPT !.pdf = set_font(@, "", 12)], 6,
                   CellOf(strip(Drop(line, 2))), "h3")
    ELSE IF startswith(line, <<Lit("-"), SP>>)
    THEN render_list_item(s, CellOf(strip(Drop(line, 2))))
    ELSE Paragraph(s, 6, CellOf(line), "text")
(***************************************************************************)
(* Inputs                                                                  *)
(***************************************************************************)
\* Page sizes in mm: A4 portrait (make_brief_pdf's default) and a short custom
\* page, on which a few lines fill a page.
PageFormats == { [w |-> 210, h |-> 297], [w |-> 210, h |-> 72] }

\* pdf.set_margins(15, 15, 15); pdf.set_auto_page_break(auto=True, margin=15)
NewPdf(fmt) ==
    [page |-> 1, x |-> Qmm(15), y |-> 15, style |-> "", size |-> 12,
     w |-> Qmm(fmt.w), l_margin |-> Qmm(15), t_margin |-> 15, trigger |-> fmt.h - 15,
     epw |-> Qmm(fmt.w - 2 * 15)]

\* Cursor heights at which the table starts: top of the page and, on the short
\* page, near its end.
StartYs(p) ==
    IF p.trigger - p.t_margin > 100 THEN { p.t_margin }
    ELSE { p.t_margin, p.trigger - 8, p.trigger - 4 }

Word(n) == Text(<<n>>)

Para == Text([j \in 1..20 |-> 5])

\* Rows are <<a, b, b, ...>>: a in the first column, b in every other one.
RowPatterns ==
    { <<Word(2), EmptyCell>>, <<Word(68), Word(68)>>, <<Word(200), Word(2)>>,
      <<Word(20), Para>> }

\* The rows of one-column tables: of 1, 4 and 7 lines.
OneColumnPatterns == { <<Word(2), EmptyCell>>, <<Word(200), Word(2)>>,
                       <<Word(400), Word(68)>> }

WideRowPatterns == { <<Word(2), Word(2)>>, <<Word(68), Word(68)>> }

\* Rows with a thumbnail in the columns after the first: a file that exists,
\* as a dict or as a plain file name, a file that does not, and a URL.
ImageRowPatterns ==
    { <<Word(2), ImageCell("wide.png")>>, <<Word(68), PathText("wide.png", 8)>>,
      <<Word(2), ImageCell("pano.PNG")>>, <<Word(2), ImageCell("gone.png")>>,
      <<Word(2), PathText("http://cdn/t.jpg", 16)>> }

MakeRow(pat, n) == [i \in 1..n |-> IF i = 1 THEN pat[1] ELSE pat[2]]

RowsOver(pats, n) ==
    UNION { [1..k -> { MakeRow(pat, n) : pat \in pats }] : k \in 0..MaxRows }

\* Tables of 1, 2 and 8 columns; every header is a two-letter word ("C0").
TablesOf(n, pats) ==
    { [headers |-> [i \in 1..n |-> Word(2)], rows |-> rs] : rs \in RowsOver(pats, n) }

\* Rows shorter and longer than the header list, which has two cells or none.
RaggedRows == { <<>>, <<Word(20)>>, <<Word(2), Word(2), Word(68)>> }

RaggedTables ==
    { [headers |-> hs, rows |-> rs] :
        hs \in { <<>>, <<Word(2), Word(2)>> },
        rs \in UNION { [1..k -> RaggedRows] : k \in 0..MaxRows } }

Tables ==
    TablesOf(1, OneColumnPatterns) \cup TablesOf(2, RowPatterns)
        \cup TablesOf(8, WideRowPatterns) \cup TablesOf(2, ImageRowPatterns)
        \cup RaggedTables

(***************************************************************************)
(* Inputs of make_brief_pdf                                                *)
(***************************************************************************)
ManyScenes == 9

\* A scene of analyzer["scenes"]; a key that is absent reads as "".
Scene(start_s, end_s, action, dialogue_vo, thumbnail_url) ==
    [start_s |-> start_s, end_s |-> end_s, shot |-> <<>>, framing |-> <<>>,
     action |-> action, dialogue_vo |-> dialogue_vo, thumbnail_url |-> thumbnail_url]

\* The scene of test_make_brief_pdf_handles_en_dash: from 0 to 1, all else empty.
TestScene == Scene(Num(0), Num(1000), <<>>, <<>>, <<>>)

\* A scene whose thumbnail is a file that exists.
ThumbScene == Scene(Num(1000), Num(2000), <<Lit("pour")>>, <<>>, <<Lit("wide.png")>>)

\* Scenes with a missing or non-numeric bound, an action over two lines, an
\* action with pipes, a thumbnail URL, and a dialogue of thirty words.
ScenePatterns ==
    { TestScene, ThumbScene,
      Scene(Num(1236), None, Phrase(<<"walks", "in">>), <<>>, <<>>),
      Scene(NotANumber, Num(1000), <<Lit("pan"), NL, Lit("left")>>, <<>>, <<>>),
      Scene(Num(1000), Num(1236), Phrase(<<"a", "|", "b", "|", "c">>), <<>>, <<>>),
      Scene(Num(0), Num(1000), <<>>, <<>>, <<Lit("http://cdn/t.jpg")>>),
      Scene(Num(0), Num(1236), <<Lit("talks")>>, Sentence(30, 11), <<>>) }

\* No scene; a scene of any pattern followed by plain ones; many thumbnails.
SceneLists ==
    { <<>>, [k \in 1..ManyScenes |-> ThumbScene] }
    \cup { <<s1>> \o rest : s1 \in ScenePatterns,
           rest \in UNION { [1..k -> {TestScene, ThumbScene}] : k \in 0..(MaxRows - 1) } }

\* product_facts["approved_claims"] and global_style["promise"]: nothing; two
\* claims, a blank item and a short promise; 36 claims.
Summaries ==
    { [approved_claims |-> <<>>, promise |-> <<>>],
      [approved_claims |-> <<Phrase(<<"dermatologist", "tested">>), <<SP>>,
                             <<Letters(182)>>>>,
       promise |-> Phrase(<<"glow", "in", "a", "week">>)],
      [approved_claims |-> [k \in 1..36 |-> Phrase(<<"dermatologist", "tested">>)],
       promise |-> <<>>] }

\* Scenes whose rows have 7, 8 and 9 cells: an action with no, one and two pipes.
PipeScenes ==
    { TestScene,
      Scene(Num(0), Num(1000), Phrase(<<"cut", "|", "zoom">>), <<>>, <<>>),
      Scene(Num(1000), Num(1236), Phrase(<<"a", "|", "b", "|", "c">>), <<>>, <<>>) }

BriefInputs ==
    { [scenes |-> sc, approved_claims |-> sm.approved_claims, promise |-> sm.promise,
       orientation |-> ""] : sc \in SceneLists, sm \in Summaries }
    \cup { [scenes |-> <<s>>, approved_claims |-> <<>>, promise |-> <<>>,
            orientation |-> o] : s \in PipeScenes, o \in {"", "p", "landscape"} }

NoBrief == [active |-> FALSE]

\* Lines 184-194: BriefPDF(orientation), margins of 15 mm, the first page, 12 pt.
FirstPage(orientation) ==
    set_font(add_page([NewPdf(PageOf(orientation)) EXCEPT !.page = 0]), "", 12)
(***************************************************************************)
(* ai_analyzer.py: normalize_ocr_keyframes                                 *)
(***************************************************************************)
\* The values json.loads yields, by their Python type.  Numbers are tenths,
\* the text of a string is a sequence of tokens, an object keeps its keys
\* in the order of the text.
JNull == [type |-> "NoneType"]

JBool(b) == [type |-> "bool", b |-> b]

JNum(tenths) == [type |-> "float", n |-> tenths]

JStr(s) == [type |-> "str", s |-> s]

JList(items) == [type |-> "list", items |-> items]

JObj(keys, values) == [type |-> "dict", keys |-> keys, values |-> values]

\* d.get(key, default)
Get(d, key, default) ==
    IF \E k \in 1..Len(d.keys) : d.keys[k] = key
    THEN d.values[CHOOSE k \in 1..Len(d.keys) : d.keys[k] = key]
    ELSE default

\* The argument ocr_json_str: None, or text that json.loads accepts or not.
PyNone == [kind |-> "None", empty |-> TRUE, parses |-> FALSE, value |-> JNull]

EmptyText == [kind |-> "str", empty |-> TRUE, parses |-> FALSE, value |-> JNull]

NotJson == [kind |-> "str", empty |-> FALSE, parses |-> FALSE, value |-> JNull]

JsonText(v) == [kind |-> "str", empty |-> FALSE, parses |-> TRUE, value |-> v]

\* How a call ends: with the text it returns or with the exception it raises.
Returned(t) == [raised |-> "", text |-> t]

Raised(exc) == [raised |-> exc, text |-> ""]

RECURSIVE Repeat(_, _)
Repeat(c, n) == IF n = 0 THEN "" ELSE c \o Repeat(c, n - 1)

RECURSIVE Str(_)
\* The characters of a sequence of tokens.
Str(s) ==
    IF s = <<>> THEN ""
    ELSE (IF Head(s).n = Len(Head(s).c) THEN Head(s).c ELSE Repeat(Head(s).c, Head(s).n))
         \o Str(Tail(s))

RECURSIVE JoinStr(_, _)
\* sep.join(parts) on the characters
JoinStr(parts, sep) ==
    IF parts = <<>> THEN ""
    ELSE IF Len(parts) = 1 THEN parts[1]
    ELSE parts[1] \o sep \o JoinStr(Tail(parts), sep)

\* repr of a float with one decimal, as json.dumps writes it
FloatRepr(tenths) == ToString(tenths \div 10) \o "." \o ToString(tenths % 10)

\* json.dumps of one normalised frame
DumpsFrame(f) ==
    "{\"t\": " \o FloatRepr(f.t) \o ", \"text\": ["
    \o JoinStr([k \in 1..Len(f.text) |-> "\"" \o Str(f.text[k]) \o "\""], ", ")
    \o "]}"

\* json.dumps({"frames": frames}, ensure_ascii=False)
Dumps(frames) ==
    "{\"frames\": ["
    \o JoinStr([k \in 1..Len(frames) |-> DumpsFrame(frames[k])], ", ")
    \o "]}"

\* Lines 167-170: float(fr.get("t", 0.0)) under try; every exception gives 0.0.
\* float() takes a number or a bool; None, a list and a dict raise TypeError
\* and text that is no numeral raises ValueError (no string below is one);
\* fr.get of a value that is no dict raises AttributeError.
FrameT(fr) ==
    IF fr.type # "dict" THEN 0
    ELSE LET t == Get(fr, "t", JNum(0))
         IN  CASE t.type = "float" -> t.n
               [] t.type = "bool" -> IF t.b THEN 10 ELSE 0
               [] OTHER -> 0

\* Lines 171-175: the text of a frame as a list; a string is one item.
FrameTxt(fr) ==
    LET txt == Get(fr, "text", JList(<<>>))
    IN  CASE txt.type = "str" -> <<txt>>
          [] txt.type = "list" -> txt.items
          [] OTHER -> <<>>

\* Lines 177-183: the items that are strings, stripped, the empty ones dropped.
CleanTxt(txt) ==
    LET kept == SelectSeq(txt, LAMBDA item : item.type = "str" /\ strip(item.s) # <<>>)
    IN  [k \in 1..Len(kept) |-> strip(kept[k].s)]

RECURSIVE InsertByT(_, _)
InsertByT(sorted, f) ==
    IF sorted = <<>> THEN <<f>>
    ELSE IF sorted[Len(sorted)].t <= f.t THEN Append(sorted, f)
    ELSE Append(InsertByT(SubSeq(sorted, 1, Len(sorted) - 1), f), sorted[Len(sorted)])

RECURSIVE SortByT(_)
\* Line 186: norm_frames.sort(key=lambda x: x["t"]), a stable sort.
SortByT(fs) ==
    IF fs = <<>> THEN <<>>
    ELSE InsertByT(SortByT(SubSeq(fs, 1, Len(fs) - 1)), fs[Len(fs)])

\* `for fr in frames`: a list gives its items, a dict its keys, a string its
\* characters; None, a number and a bool are not iterable (TypeError).
Iterate(v) ==
    CASE v.type = "list" -> [raised |-> "", items |-> v.items]
      [] v.type = "dict" -> [raised |-> "", items |-> [k \in 1..Len(v.keys) |-> JStr(<<Lit(v.keys[k])>>)]]
      [] v.type = "str" -> [raised |-> "",
                            items |-> [k \in 1..Len(Str(v.s)) |-> JStr(<<Letters(1)>>)]]
      [] OTHER -> [raised |-> "TypeError", items |-> <<>>]

\* Lines 166-186: the loop over the frames.  fr.get("text", []) at line 171 is
\* outside the try of lines 167-170: a frame that is no dict raises there.
NormFrames(frs) ==
    IF \E k \in 1..Len(frs) : frs[k].type # "dict"
    THEN Raised("AttributeError")
    ELSE Returned(Dumps(SortByT([k \in 1..Len(frs) |->
                    [t |-> FrameT(frs[k]), text |-> CleanTxt(FrameTxt(frs[k]))]])))

\* normalize_ocr_keyframes(ocr_json_str), lines 144-187.
normalize_ocr_keyframes(ocr_json_str) ==
    IF ocr_json_str.kind = "None" \/ ocr_json_str.empty THEN Returned(Dumps(<<>>))
    ELSE IF ~ocr_json_str.parses THEN Returned(Dumps(<<>>))
    ELSE LET data == ocr_json_str.value
         IN  IF data.type # "dict" THEN Raised("AttributeError")
             ELSE LET frames == Iterate(Get(data, "frames", JList(<<>>)))
                  IN  IF frames.raised # "" THEN Raised(frames.raised)
                      ELSE NormFrames(frames.items)

\* One OCR frame, as the docstring of lines 148-153 writes it.
Frame(t, txt) == JObj(<<"t", "text">>, <<t, txt>>)

Frames(frs) == JObj(<<"frames">>, <<JList(frs)>>)

Words(w) == JStr(<<Lit(w)>>)

\* The arguments of normalize_ocr_keyframes that are checked.
OcrInputs ==
    { PyNone, EmptyText, NotJson,
      JsonText(JNull), JsonText(JNum(50)), JsonText(JList(<<>>)), JsonText(Words("frames")),
      JsonText(JObj(<<>>, <<>>)),
      JsonText(JObj(<<"frames">>, <<JNull>>)),
      JsonText(JObj(<<"frames">>, <<JNum(10)>>)),
      JsonText(JObj(<<"frames">>, <<JStr(<<>>)>>)),
      JsonText(JObj(<<"frames">>, <<JObj(<<"t">>, <<JNum(0)>>)>>)),
      JsonText(Frames(<<>>)),
      JsonText(Frames(<<JNum(10)>>)),
      JsonText(Frames(<<Frame(JNum(0), JList(<<Words("Replying")>>)), Words("Sale")>>)),
      JsonText(Frames(<<JObj(<<>>, <<>>)>>)),
      JsonText(Frames(<<Frame(JNum(16), JList(<<Words("Crystal-clear calls")>>)),
                        Frame(JNum(0), Words("Replying to @"))>>)),
      JsonText(Frames(<<Frame(JNull, JList(<<JStr(<<SP>>), JNum(50), JStr(<<SP, Lit("Sale"), NL>>)>>)),
                        Frame(Words("soon"), JNum(10)),
                        Frame(JBool(TRUE), JList(<<>>))>>)) }

NoOcr == [active |-> FALSE]

NoGemini == [active |-> FALSE]

NoSession == [active |-> FALSE]

\* No document is being built.
NoDocument ==
    /\ pdf = FirstPage("P")
    /\ headers = <<>>
    /\ rows = <<>>
    /\ col_widths = <<>>
    /\ total_width = 1
    /\ font_size = 12
    /\ row_i = 1
    /\ log = <<>>
    /\ measured = <<>>
    /\ placed = <<>>
    /\ start = [pdf |-> FirstPage("P"), headers |-> <<>>, rows |-> <<>>]
    /\ run = 1
    /\ first = [pc |-> "", log |-> <<>>]
    /\ text = EmptyCell
    /\ brief = NoBrief

\* normalize_ocr_keyframes is called on its own.
InitOcr ==
    \E arg \in OcrInputs :
        /\ pc = "ocr"
        /\ ocr = [active |-> TRUE, ocr_json_str |-> arg]
        /\ gemini = NoGemini
        /\ session = NoSession
        /\ NoDocument

(***************************************************************************)
(* app.py: call_gemini_json                                                *)
(***************************************************************************)
\* Most retries a direct call of call_gemini_json is checked with.
MaxRetries == 3

\* The default of max_retries, which every handler of app.py uses.
DEFAULT_MAX_RETRIES == 3

\* The default of retry_base, 1.5 s, in tenths of a second.
retry_base == 15

\* What one mdl.generate_content call gives: a response with text, a response
\* whose text is empty, or an exception.
TextReply(t) == [kind |-> "text", text |-> t]

EmptyReply == [kind |-> "empty", text |-> EmptyText]

FailedReply == [kind |-> "error", text |-> EmptyText]

SleepAfter_i(i) == retry_base * i

\* Line 117: the argument of time.sleep in iteration i (0-based).
SleepAfter(i) == retry_base * (i + 1)

\* Lines 112-116: what the except clause binds to last_err.
ErrorOf(resp) == IF resp.kind = "empty" THEN "EmptyGeminiResponseError" ELSE "Exception"

RECURSIVE Attempts(_, _, _, _)
\* Lines 101-118 from iteration i on; s holds the calls made, the sleeps
\* slept, the exceptions the except clause caught and last_err so far.
Attempts(i, max_retries, replies, s) ==
    IF i >= max_retries
    THEN [raised |-> "RuntimeError", text |-> EmptyText, calls |-> s.calls,
          sleeps |-> s.sleeps, caught |-> s.caught, last_err |-> s.last_err]
    ELSE IF replies[i + 1].kind = "text"
    THEN [raised |-> "", text |-> replies[i + 1].text, calls |-> s.calls + 1,
          sleeps |-> s.sleeps, caught |-> s.caught, last_err |-> s.last_err]
    ELSE Attempts(i + 1, max_retries, replies,
                  [calls |-> s.calls + 1, sleeps |-> Append(s.sleeps, SleepAfter(i)),
                   caught |-> Append(s.caught, ErrorOf(replies[i + 1])),
                   last_err |-> ErrorOf(replies[i + 1])])

\* call_gemini_json(messages, max_retries=...), lines 89-118.  key tells
\* whether _get_google_api_key finds GOOGLE_API_KEY; without it
\* _ensure_gemini_configured raises RuntimeError at line 98 (from line 60).
call_gemini_json(key, replies, max_retries) ==
    IF ~key
    THEN [raised |-> "RuntimeError", text |-> EmptyText, calls |-> 0, sleeps |-> <<>>,
          caught |-> <<>>, last_err |-> "None"]
    ELSE Attempts(0, max_retries, replies,
                  [calls |-> 0, sleeps |-> <<>>, caught |-> <<>>, last_err |-> "None"])

\* The answers of Gemini to n calls in a row, its texts taken from texts.
ReplySeqs(n, texts) == [1..n -> {EmptyReply, FailedReply} \cup { TextReply(t) : t \in texts }]

\* call_gemini_json is called on its own.
InitGemini ==
    \E key \in BOOLEAN, max_retries \in 0..MaxRetries :
      \E replies \in ReplySeqs(MaxRetries, {JsonText(JObj(<<>>, <<>>))}) :
        /\ pc = "gemini"
        /\ gemini = [active |-> TRUE, key |-> key, max_retries |-> max_retries,
                     replies |-> replies]
        /\ ocr = NoOcr
        /\ session = NoSession
        /\ NoDocument

(***************************************************************************)
(* prompts.py: validate_analyzer_json and validate_script_json             *)
(***************************************************************************)
\* Python's `key in v`: a key of a dict, an item of a list, a piece of a
\* string; None, a number and a bool raise TypeError.
In(key, v) ==
    CASE v.type = "dict" -> [raised |-> "", yes |-> \E k \in 1..Len(v.keys) : v.keys[k] = key]
      [] v.type = "list" -> [raised |-> "",
                             yes |-> \E k \in 1..Len(v.items) : v.items[k] = JStr(<<Lit(key)>>)]
      [] v.type = "str" -> [raised |-> "", yes |-> \E k \in 1..Len(v.s) : v.s[k] = Lit(key)]
      [] OTHER -> [raised |-> "TypeError", yes |-> FALSE]

\* v[key] where v is a dict that has the key; JNull otherwise (never read).
Item(v, key) == IF v.type = "dict" THEN Get(v, key, JNull) ELSE JNull

\* isinstance(v, (int, float)); a bool is an int.
IsNumber(v) == v.type \in {"float", "bool"}

\* float(v) of a number
NumberOf(v) == IF v.type = "float" THEN v.n ELSE IF v.b THEN 10 ELSE 0

\* `not v`
Falsy(v) ==
    CASE v.type = "NoneType" -> TRUE
      [] v.type = "bool" -> ~v.b
      [] v.type = "float" -> v.n = 0
      [] v.type = "str" -> v.s = <<>>
      [] v.type = "list" -> v.items = <<>>
      [] OTHER -> v.keys = <<>>

Abs(n) == IF n < 0 THEN -n ELSE n

\* Lines 402-408 of prompts.py: the last scene must end at duration_s, within
\* 0.2 s; whatever cannot be read is passed over.
LastEndDiffers(parsed) ==
    LET vm == Item(parsed, "video_metadata")
        scenes == Item(parsed, "scenes")
        last == IF scenes.type = "list" /\ scenes.items # <<>>
                THEN scenes.items[Len(scenes.items)] ELSE JNull
    IN  /\ IsNumber(Item(vm, "duration_s"))
        /\ IsNumber(Item(last, "end_s"))
        /\ Abs(NumberOf(Item(last, "end_s")) - NumberOf(Item(vm, "duration_s"))) > 2

\* validate_analyzer_json(parsed), lines 387-409 of prompts.py: the list of
\* errors, or the TypeError of lines 393-399, which are under no try.
validate_analyzer_json(parsed) ==
    LET has_scenes == In("scenes", parsed)
        has_vm == In("video_metadata", parsed)
        vm == Item(parsed, "video_metadata")
        has_duration == In("duration_s", vm)
        scenes == Item(parsed, "scenes")
        e_scenes == IF ~has_scenes.yes \/ scenes.type # "list" \/ scenes.items = <<>>
                    THEN <<"Analyzer JSON missing non-empty 'scenes'.">> ELSE <<>>
        e_last == IF LastEndDiffers(parsed) THEN <<"Last scene end_s != duration_s.">> ELSE <<>>
    IN  IF has_scenes.raised # "" THEN [raised |-> "TypeError", errs |-> <<>>]
        ELSE IF parsed.type # "dict" /\ (has_scenes.yes \/ has_vm.yes)
        THEN [raised |-> "TypeError", errs |-> <<>>]
        ELSE IF ~has_vm.yes
        THEN [raised |-> "", errs |-> e_scenes \o <<"Analyzer JSON missing 'video_metadata'.">>]
        ELSE IF has_duration.raised # "" \/ (vm.type # "dict" /\ has_duration.yes)
        THEN [raised |-> "TypeError", errs |-> <<>>]
        ELSE [raised |-> "",
              errs |-> e_scenes
                       \o (IF ~has_duration.yes \/ ~IsNumber(Item(vm, "duration_s"))
                           THEN <<"'video_metadata.duration_s' missing or not numeric.">>
                           ELSE <<>>)
                       \o e_last]

\* Lines 418-426 of prompts.py: the checks of parsed["script"]; raised tells
\* that an exception ended the try block of lines 417-432.
ScriptChecks(parsed) ==
    LET has_script == In("script", parsed)
        script == Item(parsed, "script")
        scenes == IF script.type = "dict" THEN Get(script, "scenes", JList(<<>>)) ELSE JNull
        first_scene == IF scenes.type = "list" /\ scenes.items # <<>> THEN scenes.items[1] ELSE JNull
    IN  IF has_script.raised # "" THEN [raised |-> TRUE, errs |-> <<>>]
        ELSE IF ~has_script.yes THEN [raised |-> FALSE, errs |-> <<"Script JSON missing 'script'.">>]
        ELSE IF parsed.type # "dict" \/ script.type # "dict" THEN [raised |-> TRUE, errs |-> <<>>]
        ELSE IF Falsy(scenes) THEN [raised |-> FALSE, errs |-> <<"'script.scenes' is empty.">>]
        ELSE IF ~IsNumber(Item(first_scene, "start_s")) THEN [raised |-> TRUE, errs |-> <<>>]
        ELSE [raised |-> FALSE,
              errs |-> IF NumberOf(Item(first_scene, "start_s")) * 100 > 50
                       THEN <<"First scene should start at ~0.0s.">> ELSE <<>>]

\* validate_script_json(parsed, target_runtime_s), lines 412-433 of
\* prompts.py: every exception is passed over and the errors found so far
\* are returned.  target is in tenths of a second.
validate_script_json(parsed, target) ==
    LET checks == ScriptChecks(parsed)
        got == IF parsed.type = "dict" THEN Get(parsed, "target_runtime_s", JNum(0)) ELSE JNull
    IN  IF checks.raised \/ parsed.type # "dict" \/ ~IsNumber(got) THEN checks.errs
        ELSE checks.errs \o (IF Abs(NumberOf(got) - target) > 6
                             THEN <<"target_runtime_s mismatch.">> ELSE <<>>)

(***************************************************************************)
(* app.py: st.session_state and the buttons                                *)
(***************************************************************************)
\* The slider "Target Runtime (s)" at its default of 20 s, in tenths.
target_runtime_s == 200

\* An analyzer answer that validates: one scene that ends with the video.
AnalyzerOk ==
    JObj(<<"video_metadata", "scenes">>,
         <<JObj(<<"duration_s">>, <<JNum(100)>>),
           JList(<<JObj(<<"start_s", "end_s">>, <<JNum(0), JNum(100)>>)>>)>>)

\* A script answer that validates.
ScriptOk ==
    JObj(<<"script", "target_runtime_s">>,
         <<JObj(<<"scenes">>, <<JList(<<JObj(<<"start_s">>, <<JNum(0)>>)>>)>>), JNum(200)>>)

\* A research answer with one approved claim and one disclaimer.
ResearchOk ==
    JObj(<<"approved_claims", "required_disclaimers">>,
         <<JList(<<Words("Crystal-clear calls"), Words("IPX4")>>), JList(<<Words("See box")>>)>>)

\* The texts Gemini answers the three prompts with: JSON of the asked shape,
\* JSON of another shape, the JSON text null, text that is not JSON.
AnalyzerTexts == { JsonText(AnalyzerOk), JsonText(JObj(<<>>, <<>>)), JsonText(JNull), NotJson }

ScriptTexts == { JsonText(ScriptOk), JsonText(JObj(<<>>, <<>>)), JsonText(JNull), NotJson }

ResearchTexts == { JsonText(ResearchOk), JsonText(JObj(<<>>, <<>>)), JsonText(JList(<<>>)), NotJson }

\* The answers to the calls of one handler: text at once, text at the last
\* attempt after empty ones, or no text at all.
Answers(texts) ==
    LET n == DEFAULT_MAX_RETRIES
    IN  { [k \in 1..n |-> EmptyReply], [k \in 1..n |-> FailedReply],
          [k \in 1..n |-> IF k = 1 THEN FailedReply ELSE EmptyReply] }
        \cup { [k \in 1..n |-> IF k < j THEN EmptyReply ELSE TextReply(t)] :
                 j \in {1, n}, t \in texts }

\* A run in which GOOGLE_API_KEY is not found.
NoKey == [key |-> FALSE, replies |-> [k \in 1..DEFAULT_MAX_RETRIES |-> EmptyReply]]

\* The environment of one run: whether GOOGLE_API_KEY is found, and what
\* Gemini answers.
Environments(texts) ==
    {NoKey}
    \cup { [key |-> TRUE, replies |-> r] : r \in Answers(texts) }

\* What the user has entered when "Research product facts" is pressed, and
\* the environment of that run.
ResearchInputs ==
    { [named |-> FALSE, page |-> "", env |-> NoKey] }
    \cup { [named |-> TRUE, page |-> p, env |-> e] :
             p \in {"", "fetched", "failed"}, e \in Environments(ResearchTexts) }

\* No call of call_gemini_json in this run.
NoCall ==
    [raised |-> "", text |-> EmptyText, calls |-> 0, sleeps |-> <<>>, caught |-> <<>>,
     last_err |-> "None"]

\* product_research is not in st.session_state.
Unset == [type |-> "unset"]

\* Lines 188-199 and 300-308: the keys the script sets on its first run, and
\* what that run shows.
FirstRun ==
    [active |-> TRUE,
     analyzer_json_str |-> EmptyText, analyzer_parsed |-> JNull,
     script_json_str |-> EmptyText, script_parsed |-> JNull,
     product_research |-> Unset,
     claims_text |-> "",
     forbidden_text |-> "medical/health claims without substantiation\n"
                        \o "superlatives without proof\n"
                        \o "comparative claims without head-to-head evidence",
     disclaimers_text |-> "",
     product_page_text |-> "",
     pressed |-> "", call |-> NoCall, shown |-> <<>>,
     export |-> [ran |-> FALSE, analyzer |-> JNull, script |-> JNull]]

\* A run starts: nothing is pressed, called or shown yet.
NewRun(s) == [s EXCEPT !.pressed = "", !.call = NoCall, !.shown = <<>>]

Show(s, msg) == [s EXCEPT !.shown = Append(@, msg)]

\* data.get(key, []) or [] of lines 225-227, and whether "\n".join takes it.
ListOf(data, key) ==
    LET v == Get(data, key, JList(<<>>))
    IN  IF Falsy(v) THEN [ok |-> TRUE, items |-> <<>>]
        ELSE IF v.type = "list" /\ \A k \in 1..Len(v.items) : v.items[k].type = "str"
        THEN [ok |-> TRUE, items |-> [k \in 1..Len(v.items) |-> Str(v.items[k].s)]]
        ELSE [ok |-> FALSE, items |-> <<>>]

\* Lines 222-238: json.loads of the answer and the three text areas; every
\* exception gives "Research returned invalid JSON", whatever was set before.
StoreResearch(s, research_json) ==
    IF ~research_json.parses THEN Show(s, "Research returned invalid JSON")
    ELSE LET data == research_json.value
             s1 == [s EXCEPT !.product_research = data]
         IN  IF data.type # "dict" THEN Show(s1, "Research returned invalid JSON")
             ELSE LET approved == ListOf(data, "approved_claims")
                      forbidden == ListOf(data, "forbidden")
                      disclaimers == ListOf(data, "required_disclaimers")
                      s2 == [s1 EXCEPT !.claims_text = JoinStr(approved.items, "\n")]
                      s3 == [s2 EXCEPT !.forbidden_text = JoinStr(forbidden.items, "\n")]
                      s4 == [s3 EXCEPT !.disclaimers_text = JoinStr(disclaimers.items, "\n")]
                  IN  IF ~approved.ok THEN Show(s1, "Research returned invalid JSON")
                      ELSE IF ~forbidden.ok THEN Show(s2, "Research returned invalid JSON")
                      ELSE IF ~disclaimers.ok THEN Show(s3, "Research returned invalid JSON")
                      ELSE IF approved.items # <<>> \/ forbidden.items # <<>>
                              \/ disclaimers.items # <<>>
                      THEN Show(s4, "Review and verify the claims below before proceeding.")
                      ELSE Show(s4, "No product facts found; verify the URL or enter claims manually.")

\* Lines 213-241: the call of Gemini and the except clauses around it.
Research(s, env) ==
    LET call == call_gemini_json(env.key, env.replies, DEFAULT_MAX_RETRIES)
        s1 == [s EXCEPT !.call = call]
    IN  IF call.raised = "EmptyGeminiResponseError"
        THEN Show(s1, "No facts were retrieved from Gemini. Please try again.")
        ELSE IF call.raised # "" THEN Show(s1, "Product research failed")
        ELSE StoreResearch(s1, call.text)

\* Lines 201-243: the button "Research product facts".  named tells whether
\* brand and product are filled in, page is what becomes of the product
\* page: "" (no URL), "fetched" or "failed".
research_product_facts(s, named, page, env) ==
    IF ~named THEN Show([s EXCEPT !.pressed = "research"], "Enter brand and product first.")
    ELSE LET s1 == [s EXCEPT !.pressed = "research",
                             !.product_page_text = IF page = "fetched" THEN "page text" ELSE ""]
         IN  Research(IF page = "failed" THEN Show(s1, "Failed to fetch product page") ELSE s1,
                      env)

\* Lines 315-344: the button "Run Analyzer".
run_analyzer(s, env) ==
    LET call == call_gemini_json(env.key, env.replies, DEFAULT_MAX_RETRIES)
        s1 == [s EXCEPT !.pressed = "analyzer", !.call = call]
        checked == validate_analyzer_json(call.text.value)
    IN  IF call.raised # "" \/ ~call.text.parses THEN Show(s1, "Analyzer failed")
        ELSE IF checked.raised # "" THEN Show(s1, "Analyzer failed")
        ELSE Show([s1 EXCEPT !.analyzer_json_str = call.text,
                             !.analyzer_parsed = call.text.value],
                  IF checked.errs # <<>> THEN "Analyzer JSON issues"
                  ELSE "Analyzer JSON looks good")

\* Lines 347-378: the button "Generate Script from Analysis".
generate_script(s, env) ==
    LET call == call_gemini_json(env.key, env.replies, DEFAULT_MAX_RETRIES)
        s1 == [s EXCEPT !.pressed = "script", !.call = call]
        serrs == validate_script_json(call.text.value, target_runtime_s)
    IN  IF s.analyzer_json_str.empty
        THEN Show([s EXCEPT !.pressed = "script"], "Run the Analyzer first.")
        ELSE IF call.raised # "" \/ ~call.text.parses THEN Show(s1, "Script generation failed")
        ELSE Show([s1 EXCEPT !.script_json_str = call.text,
                             !.script_parsed = call.text.value],
                  IF serrs # <<>> THEN "Script JSON warnings" ELSE "Script JSON ready")

\* Lines 411-455: the export section, which every run of the script ends
\* with: brief_from_json_strings and make_brief_pdf are called with the
\* session's values when both JSON strings are non-empty.
export_brief(s) ==
    IF ~s.analyzer_json_str.empty /\ ~s.script_json_str.empty
    THEN [s EXCEPT !.export = [ran |-> TRUE, analyzer |-> s.analyzer_parsed,
                                script |-> s.script_parsed]]
    ELSE Show([s EXCEPT !.export = [ran |-> FALSE, analyzer |-> JNull, script |-> JNull]],
              "Run Analyzer and Script to export a brief.")

\* The app is opened: the script has run once, no button pressed.
InitSession ==
    /\ pc = "app"
    /\ session = export_brief(FirstRun)
    /\ ocr = NoOcr
    /\ gemini = NoGemini
    /\ NoDocument

(***************************************************************************)
(* _render_table as a state machine                                        *)
(***************************************************************************)
\* FPDF(): margins of 10 mm, automatic page break 20 mm above the bottom edge.
DefaultPdf(fmt) ==
    [page |-> 0, x |-> Qmm(10), y |-> 10, style |-> "", size |-> 12,
     w |-> Qmm(fmt.w), l_margin |-> Qmm(10), t_margin |-> 10, trigger |-> fmt.h - 20,
     epw |-> Qmm(fmt.w - 2 * 10)]

\* The 182-letter word of test_long_unbroken_word_and_bullet_list, the same
\* between two short words, and a word that fits a line.
TestTexts == { Word(182), Text(<<5, 182, 5>>), Word(30) }

\* _render_table is called on the storyboard page of a document.
InitRenderTable ==
    \E fmt \in PageFormats, t \in Tables :
      \E y0 \in StartYs(NewPdf(fmt)) :
        /\ pc = "call"
        \* pdf.add_page(); pdf.set_font("DejaVu", size=12); earlier blocks moved the cursor
        /\ pdf = [add_page(NewPdf(fmt)) EXCEPT !.y = y0]
        /\ headers = t.headers
        /\ rows = t.rows
        /\ col_widths = <<>>
        /\ total_width = 1
        /\ font_size = 12
        /\ row_i = 1
        /\ log = <<>>
        /\ measured = <<>>
        /\ placed = <<>>
        /\ start = [pdf |-> [add_page(NewPdf(fmt)) EXCEPT !.y = y0],
                    headers |-> t.headers, rows |-> t.rows]
        /\ run = 1
        /\ first = [pc |-> "", log |-> <<>>]
        /\ text = EmptyCell
        /\ brief = NoBrief
        /\ ocr = NoOcr
        /\ gemini = NoGemini
        /\ session = NoSession

\* test_long_unbroken_word_and_bullet_list: a paragraph, then a list item.
InitWrappingTest ==
    \E fmt \in PageFormats, t \in TestTexts :
      \E y0 \in StartYs(DefaultPdf(fmt)) :
        /\ pc = "para"
        /\ pdf = [add_page(DefaultPdf(fmt)) EXCEPT !.y = y0]
        /\ text = t
        /\ headers = <<>>
        /\ rows = <<>>
        /\ col_widths = <<>>
        /\ total_width = 1
        /\ font_size = 12
        /\ row_i = 1
        /\ log = <<>>
        /\ measured = <<>>
        /\ placed = <<>>
        /\ start = [pdf |-> [add_page(DefaultPdf(fmt)) EXCEPT !.y = y0],
                    headers |-> <<>>, rows |-> <<>>]
        /\ run = 1
        /\ first = [pc |-> "", log |-> <<>>]
        /\ brief = NoBrief
        /\ ocr = NoOcr
        /\ gemini = NoGemini
        /\ session = NoSession

\* make_brief_pdf(analyzer=..., script={}, product_facts=..., orientation=...)
\* up to line 194: the lines are built, the first page is added.
InitMakeBriefPdf ==
    \E inp \in BriefInputs :
        /\ pc = "summary"
        /\ pdf = FirstPage(OrientationOf(inp.orientation, scenes_table(inp.scenes)))
        /\ brief = [active |-> TRUE, scenes |-> inp.scenes,
                    summary_lines |-> SummaryLines(inp.approved_claims, inp.promise),
                    lines |-> scenes_table(inp.scenes),
                    orientation |-> inp.orientation,
                    i |-> 1, story_page |-> 0, story_from |-> 0]
        /\ text = EmptyCell
        /\ headers = <<>>
        /\ rows = <<>>
        /\ col_widths = <<>>
        /\ total_width = 1
        /\ font_size = 12
        /\ row_i = 1
        /\ log = <<>>
        /\ measured = <<>>
        /\ placed = <<>>
        /\ start = [pdf |-> FirstPage("P"), headers |-> <<>>, rows |-> <<>>]
        /\ run = 1
        /\ first = [pc |-> "", log |-> <<>>]
        /\ ocr = NoOcr
        /\ gemini = NoGemini
        /\ session = NoSession

Init == InitRenderTable \/ InitWrappingTest \/ InitMakeBriefPdf \/ InitOcr \/ InitGemini
        \/ InitSession

\* Lines 384-410 on the normalised table: widths ws, then scale and font size.
SetWidths(ws) ==
    /\ col_widths' = ScaleWidths(ws, pdf.epw)
    /\ total_width' = TotalWidth(ws, pdf.epw)
    /\ font_size' = FontSizeFor(ScaleWidths(ws, pdf.epw), TotalWidth(ws, pdf.epw), pdf.epw)

\* Lines 374-382 done: hs and rs are the padded headers and rows.
MeasureColumns(hs, rs) ==
    /\ headers' = hs
    /\ rows' = rs
    /\ pdf' = set_font(pdf, "", 12)
    /\ SetWidths([idx \in 1..Len(hs) |-> ColumnMaxW(set_font(pdf, "", 12), hs, rs, idx)])

\* Image.open raised in the width loop: the exception leaves _render_table.
OpenFailed(hs, rs) ==
    /\ headers' = hs
    /\ rows' = rs
    /\ pdf' = set_font(pdf, "", 12)
    /\ pc' = "image_error"
    /\ UNCHANGED <<col_widths, total_width, font_size>>

\* Lines 380-410 on the normalised table.
WidthsOf(hs, rs) ==
    IF ImageOpenRaises(hs, rs)
    THEN OpenFailed(hs, rs)
    ELSE MeasureColumns(hs, rs) /\ pc' = "header"

\* Lines 374-410: normalise the rows, compute the column widths and the font size.
ComputeWidths ==
    /\ pc = "call"
    /\ WidthsOf(PadRow(headers, col_count_of(headers, rows)),
                [r \in 1..Len(rows) |-> PadRow(rows[r], col_count_of(headers, rows))])
    /\ UNCHANGED <<row_i, log, measured, placed, caller>>
    /\ UNCHANGED app_state

\* Variant: breaks the page also when the row ends exactly at the trigger.
NeedsPageBreak_ge(p, height) == p.y + height >= p.trigger

\* if pdf.get_y() + height > pdf.page_break_trigger
NeedsPageBreak(p, height) == p.y + height > p.trigger

\* The record `measured` keeps of one call of _split_row_cells (lines 413, 420).
Measurement(kind, row, p, sp) ==
    [kind |-> kind, row |-> row, size |-> p.size, style |-> p.style,
     cell_lines |-> sp.cell_lines, images |-> sp.images, row_height |-> sp.row_height]

\* The record `placed` keeps of one call of _render_table_row: where the cursor
\* was when the row's height was tested (page_seen, y_seen), the height tested
\* (required), and where the row was drawn and left the cursor.
Placement(kind, row, r, seen, required, broke) ==
    [kind |-> kind, row |-> row, page_seen |-> seen.page, y_seen |-> seen.y,
     required |-> required, broke |-> broke,
     page |-> r.page_start, x |-> r.x_start, y |-> r.y_start,
     height |-> r.row_height, end_page |-> r.pdf.page, end_x |-> r.pdf.x,
     end_y |-> r.pdf.y]

\* The first header row was drawn (or raised): r is what _render_table_row left.
HeaderDrawn(pb, sp, brk, r) ==
    /\ log' = r.log
    /\ IF r.raised
       THEN /\ pc' = "raised"
            /\ pdf' = r.pdf
            /\ placed' = placed
       ELSE /\ pc' = "rows"
            /\ pdf' = set_font(r.pdf, "", font_size)
            /\ placed' = Append(placed, Placement("header", 0, r, pb, sp.row_height, brk))

\* Lines 413-416: pb is the pdf in bold, sp what _split_row_cells returned.
HeaderMeasured(pb, sp) ==
    /\ measured' = Append(measured, Measurement("header", 0, pb, sp))
    /\ HeaderDrawn(pb, sp, NeedsPageBreak(pb, sp.row_height),
                   RenderSplitRow(IF NeedsPageBreak(pb, sp.row_height)
                                  THEN add_page(pb) ELSE pb,
                                  log, sp, col_widths, total_width,
                                  LineHeight(font_size), "header", 0))

\* Lines 412-417: the header row, on a new page when it does not fit.
RenderHeader ==
    /\ pc = "header"
    /\ HeaderMeasured(set_font(pdf, "B", font_size),
                      split_row_cells(set_font(pdf, "B", font_size), headers, col_widths,
                                      total_width, LineHeight(font_size)))
    /\ UNCHANGED <<headers, rows, col_widths, total_width, font_size, row_i, caller>>
    /\ UNCHANGED app_state

\* Variant: starts the new page and forgets to draw the header row on it.
RepeatHeader_skip(p, lg, hs, cws, den, size, row) ==
    LET p1 == set_font(add_page(p), "", size)
    IN  [pdf |-> p1, log |-> lg, raised |-> FALSE, row_height |-> 0,
         x_start |-> p1.x, y_start |-> p1.y, page_start |-> p1.page]

BackToRegular_bold(h, size) == h

\* pdf.set_font("DejaVu", size=font_size) after the header (skipped by a raise).
BackToRegular(h, size) == [h EXCEPT !.pdf = IF h.raised THEN @ ELSE set_font(@, "", size)]

\* Lines 422-425: a new page, and the header row again in bold.
RepeatHeader(p, lg, hs, cws, den, size, row) ==
    BackToRegular(render_table_row(set_font(add_page(p), "B", size), lg, hs, cws, den,
                                   LineHeight(size), "header", row),
                  size)

\* Line 426 returned (or raised): r is what _render_table_row left for the row,
\* pl the placements before it, seen the pdf when the row's height was tested.
RowDrawn(seen, sp, brk, pl, r) ==
    /\ log' = r.log
    /\ pdf' = r.pdf
    /\ IF r.raised
       THEN /\ pc' = "raised"
            /\ placed' = pl
            /\ UNCHANGED row_i
       ELSE /\ pc' = "rows"
            /\ placed' = Append(pl, Placement("row", row_i, r, seen, sp.row_height, brk))
            /\ row_i' = row_i + 1

\* Lines 422-426 when the row does not fit: h is what the repeated header left.
RowOnNewPage(sp, h) ==
    IF h.raised
    THEN /\ pc' = "raised"
         /\ pdf' = h.pdf
         /\ log' = h.log
         /\ UNCHANGED <<placed, row_i>>
    ELSE RowDrawn(pdf, sp, TRUE,
                  Append(placed, Placement("header", row_i, h, pdf, sp.row_height, TRUE)),
                  render_table_row(h.pdf, h.log, rows[row_i], col_widths, total_width,
                                   LineHeight(font_size), "row", row_i))

\* Lines 420-426: sp is what _split_row_cells returned for the row.
RowMeasured(sp) ==
    /\ measured' = Append(measured, Measurement("row", row_i, pdf, sp))
    /\ IF NeedsPageBreak(pdf, sp.row_height)
       THEN RowOnNewPage(sp, RepeatHeader(pdf, log, headers, col_widths, total_width,
                                          font_size, row_i))
       ELSE RowDrawn(pdf, sp, FALSE, placed,
                     render_table_row(pdf, log, rows[row_i], col_widths, total_width,
                                      LineHeight(font_size), "row", row_i))

\* Lines 419-426, one iteration of `for row in rows`.
RenderRow ==
    /\ pc = "rows"
    /\ row_i <= Len(rows)
    /\ RowMeasured(split_row_cells(pdf, rows[row_i], col_widths, total_width,
                                   LineHeight(font_size)))
    /\ UNCHANGED <<headers, rows, col_widths, total_width, font_size, caller>>
    /\ UNCHANGED app_state

\* The loop is exhausted: _render_table returns.
Return ==
    /\ pc = "rows"
    /\ row_i > Len(rows)
    /\ pc' = "done"
    /\ UNCHANGED <<pdf, headers, rows, col_widths, total_width, font_size, row_i,
                   log, measured, placed, caller>>
    /\ UNCHANGED app_state

\* _render_table has returned or raised.
Ended == pc \in {"done", "raised", "image_error"}

\* Variant: the second call goes on where the first one left the pdf.
SecondCall_dirty == pdf' = pdf

\* The pdf handed to the second call is in the state the first call found.
SecondCall == pdf' = start.pdf

\* _render_table(pdf, headers, rows) once more: same headers and rows, the pdf
\* in the same state (page, cursor, font); the locals start afresh.
RenderAgain ==
    /\ Ended
    /\ ~brief.active
    /\ run = 1
    /\ run' = 2
    /\ first' = [pc |-> pc, log |-> log]
    /\ SecondCall
    /\ pc' = "call"
    /\ headers' = start.headers
    /\ rows' = start.rows
    /\ col_widths' = <<>>
    /\ total_width' = 1
    /\ font_size' = 12
    /\ row_i' = 1
    /\ log' = <<>>
    /\ measured' = <<>>
    /\ placed' = <<>>
    /\ UNCHANGED <<start, text, brief>>
    /\ UNCHANGED app_state

\* s is what a helper left: the pdf, the log, whether FPDFException was raised.
Rendered(s, next_pc) ==
    /\ pdf' = s.pdf
    /\ log' = s.log
    /\ pc' = IF s.raised THEN "raised" ELSE next_pc
    /\ UNCHANGED <<table_state, caller>>

\* _safe_multi_cell(pdf, pdf.epw, 6, long_word)
SafeMultiCell ==
    /\ pc = "para"
    /\ Rendered(safe_multi_cell([pdf |-> pdf, log |-> log, raised |-> FALSE],
                                pdf.epw, 6, text),
                "item")
    /\ UNCHANGED app_state

\* _render_list_item(pdf, long_word)
RenderListItem ==
    /\ pc = "item"
    /\ Rendered(render_list_item([pdf |-> pdf, log |-> log, raised |-> FALSE], text),
                "listed")
    /\ UNCHANGED app_state

\* What a line of make_brief_pdf outside a table leaves: r = [pdf, log, raised].
LineRendered_stay(r, next_pc) ==
    /\ pdf' = r.pdf
    /\ log' = r.log
    /\ pc' = IF r.raised THEN "raised" ELSE next_pc
    /\ brief' = brief
    /\ UNCHANGED <<table_state, start, run, first, text>>

\* Lines 198-217 and 237-256: the line is rendered and i += 1.
LineRendered(r, next_pc) ==
    /\ pdf' = r.pdf
    /\ log' = r.log
    /\ pc' = IF r.raised THEN "raised" ELSE next_pc
    /\ brief' = [brief EXCEPT !.i = @ + 1]
    /\ UNCHANGED <<table_state, start, run, first, text>>

\* Lines 196-217: one iteration of the loop over summary_lines.
SummaryLine ==
    /\ pc = "summary"
    /\ brief.i <= Len(brief.summary_lines)
    /\ LineRendered(RenderLine([pdf |-> pdf, log |-> log, raised |-> FALSE],
                               brief.summary_lines[brief.i]),
                    "summary")
    /\ UNCHANGED app_state

\* Variant: goes on below the summary, without pdf.add_page().
NewSection_samepage(p) == set_font(p, "", 12)

\* pdf.add_page(); pdf.set_font("DejaVu", size=12)
NewSection(p) == set_font(add_page(p), "", 12)

\* Lines 220-223: the summary loop is over; the storyboard starts on a new page.
\* story_page is that page, story_from the index of the first cell drawn after.
StoryboardPage ==
    /\ pc = "summary"
    /\ brief.i > Len(brief.summary_lines)
    /\ pdf' = NewSection(pdf)
    /\ brief' = [brief EXCEPT !.i = 1, !.story_page = NewSection(pdf).page,
                              !.story_from = Len(log) + 1]
    /\ pc' = "storyboard"
    /\ UNCHANGED <<table_state, log, start, run, first, text>>
    /\ UNCHANGED app_state

\* Lines 237-256: one iteration of the storyboard loop on a line outside a table.
StoryboardLine ==
    /\ pc = "storyboard"
    /\ brief.i <= Len(brief.lines)
    /\ ~IsTableStart(brief.lines, brief.i)
    /\ LineRendered(RenderLine([pdf |-> pdf, log |-> log, raised |-> FALSE],
                               brief.lines[brief.i]),
                    "storyboard")
    /\ UNCHANGED app_state

\* _render_table(pdf, headers, rows) is entered with the cells t of the block.
TableCalled(hs, rs) ==
    /\ headers' = hs
    /\ rows' = rs
    /\ start' = [pdf |-> pdf, headers |-> hs, rows |-> rs]
    /\ col_widths' = <<>>
    /\ total_width' = 1
    /\ font_size' = 12
    /\ row_i' = 1
    /\ measured' = <<>>
    /\ placed' = <<>>
    /\ pc' = "call"

\* The cells of a parsed row as _render_table reads them.
CellsOf_row(cells) == [j \in 1..Len(cells) |-> CellOf(cells[j])]

\* Lines 227-233: headers, rows, i = _parse_table_block(lines, i); _render_table(...)
ParseAndCall(t) ==
    /\ brief' = [brief EXCEPT !.i = t.next]
    /\ TableCalled(CellsOf_row(t.headers),
                   [k \in 1..Len(t.rows) |-> CellsOf_row(t.rows[k])])

RenderStoryboardTable ==
    /\ pc = "storyboard"
    /\ brief.i <= Len(brief.lines)
    /\ IsTableStart(brief.lines, brief.i)
    /\ ParseAndCall(parse_table_block(brief.lines, brief.i))
    /\ UNCHANGED <<pdf, log, run, first, text>>
    /\ UNCHANGED app_state

\* Lines 234-235: _render_table returned; pdf.ln(SECTION_SPACING); continue
TableReturned ==
    /\ pc = "done"
    /\ brief.active
    /\ pdf' = ln([pdf |-> pdf], SECTION_SPACING).pdf
    /\ pc' = "storyboard"
    /\ UNCHANGED <<table_state, log, caller>>
    /\ UNCHANGED app_state

\* Lines 258-259: the storyboard loop is over; the document is returned.
Output ==
    /\ pc = "storyboard"
    /\ brief.i > Len(brief.lines)
    /\ pc' = "output"
    /\ UNCHANGED <<pdf, table_state, log, caller>>
    /\ UNCHANGED app_state

\* The call of normalize_ocr_keyframes, lines 144-187 of ai_analyzer.py.
NormalizeOcrKeyframes ==
    /\ pc = "ocr"
    /\ ocr' = [active |-> TRUE, ocr_json_str |-> ocr.ocr_json_str,
               result |-> normalize_ocr_keyframes(ocr.ocr_json_str)]
    /\ pc' = "normalized"
    /\ UNCHANGED <<document_state, gemini, session>>

\* The call of call_gemini_json, lines 89-118 of app.py.
CallGeminiJson ==
    /\ pc = "gemini"
    /\ gemini' = [active |-> TRUE, key |-> gemini.key, max_retries |-> gemini.max_retries,
                  replies |-> gemini.replies,
                  result |-> call_gemini_json(gemini.key, gemini.replies, gemini.max_retries)]
    /\ pc' = "called"
    /\ UNCHANGED <<document_state, ocr, session>>

\* One run of app.py with the button "Research product facts" pressed.
ResearchProductFacts ==
    /\ pc = "app"
    /\ \E inp \in ResearchInputs :
          session' = export_brief(research_product_facts(NewRun(session), inp.named,
                                                          inp.page, inp.env))
    /\ UNCHANGED <<pc, document_state, ocr, gemini>>

\* One run of app.py with the button "Run Analyzer" pressed.
RunAnalyzer ==
    /\ pc = "app"
    /\ \E env \in Environments(AnalyzerTexts) :
          session' = export_brief(run_analyzer(NewRun(session), env))
    /\ UNCHANGED <<pc, document_state, ocr, gemini>>

\* One run of app.py with the button "Generate Script from Analysis" pressed.
GenerateScript ==
    /\ pc = "app"
    /\ \E env \in Environments(ScriptTexts) :
          session' = export_brief(generate_script(NewRun(session), env))
    /\ UNCHANGED <<pc, document_state, ocr, gemini>>

\* One run of app.py with no button pressed: a widget was changed.
Rerun ==
    /\ pc = "app"
    /\ session' = export_brief(NewRun(session))
    /\ UNCHANGED <<pc, document_state, ocr, gemini>>

Next ==
    \/ ComputeWidths \/ RenderHeader \/ RenderRow \/ Return \/ RenderAgain
    \/ SafeMultiCell \/ RenderListItem
    \/ SummaryLine \/ StoryboardPage \/ StoryboardLine \/ RenderStoryboardTable
    \/ TableReturned \/ Output
    \/ NormalizeOcrKeyframes \/ CallGeminiJson
    \/ ResearchProductFacts \/ RunAnalyzer \/ GenerateScript \/ Rerun

Spec == Init /\ [][Next]_vars

(***************************************************************************)
(* Vocabulary of the properties                                            *)
(***************************************************************************)
LogIdx == 1..Len(log)

PlacedIdx == 1..Len(placed)

\* Pages on which a cell of the table has been drawn.
TablePages == { log[j].page : j \in LogIdx }

\* The header rows drawn on page pg: one per call that drew a header cell there.
HeaderDrawsOn(pg) ==
    { log[j].row : j \in { k \in LogIdx : log[k].kind = "header" /\ log[k].page = pg } }

\* Cells of the row placed as placed[i].
CellsOf(i) ==
    { j \in LogIdx : log[j].kind = placed[i].kind /\ log[j].row = placed[i].row }

UsableHeight == pdf.trigger - pdf.t_margin

(***************************************************************************)
(* C1: a table that ends up on N pages has its header row drawn exactly N  *)
(* times, once on each of those pages, above every data row of that page.  *)
(***************************************************************************)
C1_HeaderOncePerPage ==
    pc = "done" =>
        \A pg \in TablePages :
            /\ Cardinality(HeaderDrawsOn(pg)) = 1
            /\ \A j, k \in LogIdx :
                   (log[j].page = pg /\ log[k].page = pg
                    /\ log[j].kind = "header" /\ log[k].kind = "row")
                   => (j < k /\ log[j].y + log[j].h <= log[k].y)

(***************************************************************************)
(* C2: row atomicity.  Every row drawn (header or data) lies wholly on one *)
(* page: its top is at or below the top margin, its bottom (start y + row  *)
(* height) at or above the page-break trigger of the page it starts on,    *)
(* and none of its cells is drawn on another page.                         *)
(***************************************************************************)
C2_RowAtomicity ==
    \A i \in PlacedIdx :
        /\ placed[i].y >= pdf.t_margin
        /\ placed[i].y + placed[i].height <= pdf.trigger
        /\ \A j \in CellsOf(i) : log[j].page = placed[i].page

\* The column widths have been computed (line 400 has run).
WidthsComputed == pc \in {"header", "rows", "done", "raised"}

MeasuredIdx == 1..Len(measured)

\* The cells of the row that measured[m] is about.
CellsMeasured(m) == IF measured[m].kind = "header" THEN headers ELSE rows[measured[m].row]

\* The words of a text cell; an image cell has none.
Tokens(cell) == IF get_image_path(cell) # "" THEN <<>> ELSE cell.words

\* Longest unbreakable token of column idx (header and cells), in characters.
LongestToken(idx) ==
    Max(SeqMax(Tokens(headers[idx])),
        SeqMax([r \in 1..Len(rows) |-> SeqMax(Tokens(rows[r][idx]))]))

\* Its width at the table's font size, in Qmm.
MinWidth(idx) == LongestToken(idx) * font_size

(***************************************************************************)
(* C3: width conservation.  For every table with at least one column the   *)
(* scaled column widths sum to the available width epw.                    *)
(***************************************************************************)
C3_WidthConservation ==
    (WidthsComputed /\ Len(col_widths) >= 1)
        => SeqSum(col_widths) = pdf.epw * total_width

C3_Witness ==
    /\ pc = "done"
    /\ Len(col_widths) = 2
    /\ col_widths[1] # col_widths[2]
    /\ SeqSum(col_widths) = pdf.epw * total_width

(***************************************************************************)
(* C4: wrap-fits.  As claimed: every line _split_row_cells returns for a   *)
(* text cell is at most as wide as the column, unless one single character *)
(* is already wider than the column.                                       *)
(***************************************************************************)
C4_WrapFitsColumn ==
    \A m \in MeasuredIdx :
        \A i \in 1..Len(measured[m].cell_lines) :
            \/ measured[m].size * total_width > col_widths[i]
            \/ \A l \in 1..Len(measured[m].cell_lines[i]) :
                   measured[m].cell_lines[i][l] * measured[m].size * total_width
                       <= col_widths[i]

(***************************************************************************)
(* C4 as amended: every line fits the column less its two cell margins     *)
(* (hence the column), and an unbroken word wider than that is cut into    *)
(* several lines; unless one single character is already wider than the    *)
(* column less its two cell margins, and then the cell's whole text is     *)
(* returned as one line.                                                   *)
(***************************************************************************)
C4_WrapFitsInnerWidth ==
    \A m \in MeasuredIdx :
        \A i \in 1..Len(measured[m].cell_lines) :
            LET lines == measured[m].cell_lines[i]
                size  == measured[m].size
                inner == col_widths[i] - 2 * c_margin * total_width
                cell  == CellsMeasured(m)[i]
            IN  IF measured[m].images[i].image # "" THEN lines = <<>>
                ELSE IF size * total_width > inner
                THEN lines = (IF Chars(cell) = 0 THEN <<>> ELSE <<Chars(cell)>>)
                ELSE /\ \A l \in 1..Len(lines) : lines[l] * size * total_width <= inner
                     /\ SeqSum(lines) >= SeqSum(cell.words)
                     /\ (Len(cell.words) = 1
                         /\ Chars(cell) * size * total_width > col_widths[i])
                            => Len(lines) >= 2

C4_Witness ==
    \E m \in MeasuredIdx :
        \E i \in 1..Len(measured[m].cell_lines) :
            /\ Len(Tokens(CellsMeasured(m)[i])) = 1
            /\ Len(measured[m].cell_lines[i]) >= 2
            /\ \A l \in 1..Len(measured[m].cell_lines[i]) :
                   measured[m].cell_lines[i][l] * measured[m].size * total_width
                       <= col_widths[i]

(***************************************************************************)
(* C5: when the columns' minimums (width of the longest unbreakable token  *)
(* of the header and the cells of the column) sum to at most the available *)
(* width, every column is at least as wide as its minimum.                 *)
(***************************************************************************)
C5_NeverBelowMinimum ==
    (/\ WidthsComputed
     /\ SeqSum([i \in 1..Len(col_widths) |-> MinWidth(i)]) <= pdf.epw)
        => \A i \in 1..Len(col_widths) : col_widths[i] >= MinWidth(i) * total_width

(***************************************************************************)
(* C6: page-break decision for data rows.  The height a row needs is known *)
(* before the cursor moves; the row starts on a new page if and only if    *)
(* cursor y + that height exceeds the page-break trigger, and otherwise    *)
(* where the cursor was; once the row is placed the cursor is at the row's *)
(* starting x and at exactly row start y + that height.                    *)
(***************************************************************************)
C6_PageBreakDecision ==
    \A i \in PlacedIdx :
        placed[i].kind = "row" =>
            LET pl   == placed[i]
                over == pl.y_seen + pl.required > pdf.trigger
            IN  /\ pl.height = pl.required
                /\ (pl.page > pl.page_seen) <=> over
                /\ ~over => (pl.page = pl.page_seen /\ pl.y = pl.y_seen
                             /\ pl.end_page = pl.page)
                /\ pl.end_x = pl.x
                /\ pl.end_y = pl.y + pl.required

C6_Witness ==
    /\ pc = "done"
    /\ \E i, j \in PlacedIdx :
           /\ placed[i].kind = "row" /\ placed[j].kind = "row"
           /\ placed[i].y_seen + placed[i].required > pdf.trigger
           /\ placed[i].page = placed[i].page_seen + 1
           /\ placed[j].y_seen + placed[j].required = pdf.trigger
           /\ placed[j].page = placed[j].page_seen

(***************************************************************************)
(* C7: on every page where a data row is drawn the header row has been     *)
(* drawn earlier on the same page, and the first data row of a             *)
(* continuation page starts at top margin + header height.                 *)
(***************************************************************************)
C7_HeaderBeforeRowsOnPage ==
    /\ \A k \in LogIdx :
           log[k].kind = "row" =>
               \E j \in 1..(k - 1) :
                   log[j].kind = "header" /\ log[j].page = log[k].page
    /\ \A i \in PlacedIdx :
           (placed[i].kind = "row" /\ placed[i].broke) =>
               /\ placed[i - 1].kind = "header"
               /\ placed[i].y = pdf.t_margin + placed[i - 1].height

(***************************************************************************)
(* C8: a row higher than the full usable page height is placed on a fresh  *)
(* page, is not split across pages, and the rows after it are rendered.    *)
(***************************************************************************)
C8_OversizeRowOnFreshPage ==
    \A i \in PlacedIdx :
        (placed[i].kind = "row" /\ placed[i].required > UsableHeight) =>
            /\ placed[i].page = placed[i].page_seen + 1
            /\ \A j \in CellsOf(i) : log[j].page = placed[i].page
            /\ placed[i].end_page = placed[i].page

(***************************************************************************)
(* C9: scenario C.  Three data rows, each needing more height than is left *)
(* on the page when it is reached.                                         *)
(***************************************************************************)
RowsPlaced == { i \in PlacedIdx : placed[i].kind = "row" }

ThreeRowsNoneFits ==
    /\ pc = "done"
    /\ Len(rows) = 3
    /\ \A i \in RowsPlaced : placed[i].y_seen + placed[i].required > pdf.trigger

\* Header rows drawn after the first one.
HeaderRepeats ==
    Cardinality({ log[j].row : j \in { k \in LogIdx : log[k].kind = "header"
                                                      /\ log[k].row > 0 } })

\* Pages started after the first header row was placed.
PageBreaksInLoop == pdf.page - placed[1].end_page

\* C9 as claimed: exactly 2 page breaks, and the header row drawn exactly 2 more
\* times after its first drawing.
C9_ScenarioC_TwoBreaks ==
    ThreeRowsNoneFits => (PageBreaksInLoop = 2 /\ HeaderRepeats = 2)

\* C9 as amended: a page break before each of the 3 rows (at least 3 page breaks,
\* each row starting on the page after the one it was reached on) and the header
\* row drawn exactly 3 more times after its first drawing.
C9_ScenarioC_ThreeBreaks ==
    ThreeRowsNoneFits =>
        /\ PageBreaksInLoop >= 3
        /\ HeaderRepeats = 3
        /\ \A i \in RowsPlaced : placed[i].page = placed[i].page_seen + 1

C9_Witness ==
    /\ ThreeRowsNoneFits
    /\ HeaderRepeats = 3
    /\ PageBreaksInLoop = 3

(***************************************************************************)
(* C10: scenario B.  Eight headers, one row of eight equal long words, on  *)
(* a usable width of 180 mm.                                               *)
(***************************************************************************)
ScenarioB ==
    /\ pc = "done"
    /\ Len(headers) = 8
    /\ Len(rows) = 1
    /\ \A i \in 1..8 : rows[1][i] = Word(68)
    /\ pdf.epw = Qmm(180)

\* Right edge of the text of a drawn cell, over total_width.
RightEdge(op) == op.x_num + (c_margin + op.chars * op.size) * total_width

NoLinePastPage == \A j \in LogIdx : RightEdge(log[j]) <= pdf.w * total_width

ImageOps == { j \in LogIdx : "image" \in DOMAIN log[j] }

\* Cells (r, i) of the data rows that are images whose file cannot be opened.
UnreadableImageCells ==
    { c \in UNION { { <<r, i>> : i \in 1..Len(rows[r]) } : r \in 1..Len(rows) } :
        /\ get_image_path(rows[c[1]][c[2]]) # ""
        /\ ~CanOpen(get_image_path(rows[c[1]][c[2]])) }

(***************************************************************************)
(* C11: an image cell whose file is missing or unreadable is rendered as    *)
(* its path string in plain text and the render completes: a failure to    *)
(* load an image never aborts _render_table.                               *)
(***************************************************************************)
C11_MissingImageFallsBack ==
    /\ pc # "image_error"
    /\ pc = "done" =>
           \A c \in UnreadableImageCells :
               \E j \in LogIdx \ ImageOps :
                   /\ log[j].kind = "row" /\ log[j].row = c[1] /\ log[j].col = c[2]
                   /\ log[j].chars > 0

(***************************************************************************)
(* C12: a failure to wrap a cell's text (FPDFException of multi_cell) never *)
(* leaves _render_table, neither from the measuring pass nor from the      *)
(* drawing pass.                                                           *)
(***************************************************************************)
C12_WrapFailureRecovered == pc # "raised"

CellHeight(m, i) ==
    IF measured[m].images[i].image # "" THEN IMAGE_CELL_HEIGHT
    ELSE LineHeight(measured[m].size) * Max(1, Len(measured[m].cell_lines[i]))

CellHeights(m) == [i \in 1..Len(measured[m].cell_lines) |-> CellHeight(m, i)]

\* Heights of the operations drawn for column col of the row placed as placed[i].
DrawnHeights(i, col) ==
    LET ops == { j \in CellsOf(i) : log[j].col = col }
    IN  [j \in LogIdx |-> IF j \in ops THEN log[j].h ELSE 0]

\* Every column of every placed row is drawn to the row's one height.
DrawnWithRowHeight ==
    \A i \in PlacedIdx :
        \A col \in 1..Len(col_widths) : SeqSum(DrawnHeights(i, col)) = placed[i].height

(***************************************************************************)
(* C14 as claimed: the row height _split_row_cells returns equals the      *)
(* maximum of its cells' heights (text: lines x line height, image: the    *)
(* fixed image height), and all cells of the row are drawn with it.        *)
(***************************************************************************)
C14_RowHeightIsMax ==
    /\ \A m \in MeasuredIdx : measured[m].row_height = SeqMax(CellHeights(m))
    /\ DrawnWithRowHeight

(***************************************************************************)
(* C14 as amended: the row height is a whole number of lines, the smallest *)
(* positive multiple of the line height that is at least every cell's      *)
(* height; so the row is never shorter than any of its cells and, unless   *)
(* it is one line high, less than one line higher than its tallest cell;   *)
(* all cells of the row are drawn with that one height.                    *)
(***************************************************************************)
C14_RowHeightWholeLines ==
    /\ \A m \in MeasuredIdx :
           LET H  == measured[m].row_height
               lh == LineHeight(measured[m].size)
           IN  /\ H % lh = 0
               /\ H >= lh
               /\ H >= SeqMax(CellHeights(m))
               /\ H = lh \/ H < SeqMax(CellHeights(m)) + lh
    /\ DrawnWithRowHeight

C14_Witness ==
    /\ pc = "done"
    /\ \E i \in PlacedIdx :
           /\ placed[i].kind = "row"
           /\ placed[i].height = 32
           /\ \E j \in CellsOf(i) \cap ImageOps : log[j].h = 32 /\ log[j].img_h = 30
           /\ \E j \in CellsOf(i) \ ImageOps : log[j].line = 7 /\ log[j].h = 4

(***************************************************************************)
(* C15: every image is drawn at the fixed image height, with width         *)
(* min(image height x intrinsic width / intrinsic height, column width -   *)
(* padding), so it stays between its column's left and right borders, and  *)
(* it is horizontally centred in the column.  Horizontal positions are     *)
(* over 2 x total_width.                                                   *)
(***************************************************************************)
C15_ImageWithinColumn ==
    \A j \in ImageOps :
        LET op    == log[j]
            left  == 2 * op.x_num
            right == 2 * (op.x_num + op.w_num)
            img_r == op.img_x2 + 2 * op.drawn_w * total_width
        IN  /\ op.img_h = IMAGE_CELL_HEIGHT
            /\ op.drawn_w * total_width = op.img_w_num
            /\ left <= op.img_x2
            /\ img_r <= right
            /\ op.img_x2 - left = right - img_r

(***************************************************************************)
(* C16: normalisation.  Once _render_table computes widths or draws, the   *)
(* header list and every row have exactly col_count cells, col_count being *)
(* the largest of the header length and all row lengths of the call; the   *)
(* cells of the call are kept in place and the added ones are empty.  So   *)
(* there are as many column widths as cells in every row laid out, and     *)
(* every cell of a placed row is drawn.                                    *)
(***************************************************************************)
Normalised(given, cells, n) ==
    /\ Len(cells) = n
    /\ \A i \in 1..n : cells[i] = IF i <= Len(given) THEN given[i] ELSE EmptyCell

C16_Normalised ==
    (WidthsComputed \/ pc = "image_error") =>
        LET n == Max(Len(start.headers),
                     SeqMax([r \in 1..Len(start.rows) |-> Len(start.rows[r])]))
        IN  /\ Normalised(start.headers, headers, n)
            /\ Len(rows) = Len(start.rows)
            /\ \A r \in 1..Len(rows) : Normalised(start.rows[r], rows[r], n)
            /\ WidthsComputed => Len(col_widths) = n
            /\ \A m \in MeasuredIdx : Len(measured[m].cell_lines) = n
            /\ \A i \in PlacedIdx :
                   \A col \in 1..n : \E j \in CellsOf(i) : log[j].col = col

C16_Witness ==
    /\ pc = "done"
    /\ Len(start.headers) = 2
    /\ \E r \in 1..Len(rows) : Len(start.rows[r]) = 3
    /\ \E r \in 1..Len(rows) : Len(start.rows[r]) = 0
    /\ Len(col_widths) = 3
    /\ Len(placed) = Len(rows) + 1
    /\ \E j \in LogIdx : log[j].kind = "header" /\ log[j].col = 3

(***************************************************************************)
(* C17: when the columns' minimums (longest unbreakable token) sum to more *)
(* than the available width, the allocation keeps every column at least at *)
(* its minimum, so the table is wider than the available width, and the    *)
(* rendering goes on without a fatal error.                                *)
(***************************************************************************)
C17_MinimumsKeptOnOverflow ==
    (/\ WidthsComputed
     /\ SeqSum([i \in 1..Len(col_widths) |-> MinWidth(i)]) > pdf.epw)
        => /\ \A i \in 1..Len(col_widths) : col_widths[i] >= MinWidth(i) * total_width
           /\ SeqSum(col_widths) > pdf.epw * total_width
           /\ pc # "raised"

(***************************************************************************)
(* C18: a long unbroken word rendered as a paragraph of width epw and as a *)
(* bullet list item gives only text lines whose right edge is within the   *)
(* page width; the bullet's width plus the item text's width is epw, and   *)
(* every line of the item starts after the bullet indent.                  *)
(***************************************************************************)
OpsOf(kind) == { j \in LogIdx : log[j].kind = kind }

BriefEnded == brief.active /\ pc \in {"output", "raised", "image_error"}

\* The scenes' values written with two decimals.
TwoDecimals(milli) ==
    CASE milli = 0    -> "0.00"
      [] milli = 1000 -> "1.00"
      [] milli = 1236 -> "1.24"
      [] milli = 2000 -> "2.00"

HasBounds(s) == s.start_s.kind = "float" /\ s.end_s.kind = "float"

ExpectedTimestamp(s) ==
    IF HasBounds(s)
    THEN <<Lit(TwoDecimals(s.start_s.milli)), EN_DASH, Lit(TwoDecimals(s.end_s.milli))>>
    ELSE <<>>

\* The body rows of the storyboard table: the lines after the header line
\* (the third line) and the separator.
BodyRows(lines) == parse_table_block(lines, 3).rows

\* The cells drawn after the summary for column col of body row k, one per line.
DrawnCells(k, col) ==
    { j \in LogIdx : /\ j >= brief.story_from
                     /\ log[j].page >= brief.story_page
                     /\ log[j].kind = "row" /\ log[j].row = k /\ log[j].col = col }

\* The characters they hold, line after line.
CharsOfLines(ops) ==
    SeqSum([l \in 1..Cardinality(ops) |->
               log[CHOOSE j \in ops : log[j].line = l - 1].chars])

DrawnChars(k, col) == CharsOfLines(DrawnCells(k, col))

C19_OneRowPerScene ==
    (brief.active /\ brief.scenes # <<>>) =>
        /\ Len(BodyRows(brief.lines)) = Len(brief.scenes)
        /\ \A k \in 1..Len(brief.scenes) :
               BodyRows(brief.lines)[k][1] = ExpectedTimestamp(brief.scenes[k])

C19_TimestampRowRendered ==
    /\ C19_OneRowPerScene
    /\ BriefEnded =>
           \A k \in 1..Len(brief.scenes) :
               HasBounds(brief.scenes[k]) =>
                   /\ brief.story_from > 0
                   /\ DrawnChars(k, 1) = 9

(***************************************************************************)
(* C20: make_brief_pdf always produces a two-page document: page 1 holds   *)
(* only the summary, the scene-by-scene table is rendered on page 2; for   *)
(* every input the page count is exactly 2 and no storyboard content       *)
(* appears on page 1.                                                      *)
(***************************************************************************)
\* The cells drawn for the summary and for the storyboard.
SummaryOps == { j \in LogIdx : j < brief.story_from }

StoryboardOps == { j \in LogIdx : j >= brief.story_from }

PipesIn(line) == Cardinality({ k \in 1..Len(line) : line[k] = PIPE })

\* The lines of the storyboard table: those that start with a pipe, the
\* separator apart.
TableLines(lines) ==
    { k \in 1..Len(lines) : startswith(lines[k], <<PIPE>>) /\ ~IsSeparator(lines[k]) }

WidestLine(lines) ==
    IF TableLines(lines) = {} THEN 0
    ELSE CHOOSE n \in { PipesIn(lines[k]) - 1 : k \in TableLines(lines) } :
             \A k \in TableLines(lines) : PipesIn(lines[k]) - 1 <= n

\* The page lies on its side: wider than high (the trigger is 15 mm above the
\* lower edge, heights in mm, widths in Qmm).
IsLandscape(p) == p.w > Qmm(p.trigger + 15)

C21_Orientation ==
    brief.active =>
        /\ brief.orientation = "" =>
               (IsLandscape(pdf) <=> WidestLine(brief.lines) > 8)
        /\ brief.orientation \in {"l", "landscape"} => IsLandscape(pdf)
        /\ brief.orientation \in {"p", "portrait"} => ~IsLandscape(pdf)

\* A row of nine cells turned the page with no orientation given, and left it
\* upright with orientation "p".
C21_Witness ==
    /\ brief.active
    /\ pc = "output"
    /\ WidestLine(brief.lines) = 9
    /\ \/ brief.orientation = "" /\ IsLandscape(pdf)
       \/ brief.orientation = "p" /\ ~IsLandscape(pdf)

(***************************************************************************)
(* C22: normalize_ocr_keyframes on invalid input                           *)
(***************************************************************************)
\* The shape the docstring describes: {"frames": [ {...}, ... ]}, an object
\* whose "frames", when present, is a list of objects.
ExpectedShape(arg) ==
    /\ arg.kind = "str" /\ ~arg.empty /\ arg.parses
    /\ arg.value.type = "dict"
    /\ LET frames == Get(arg.value, "frames", JList(<<>>))
       IN  /\ frames.type = "list"
           /\ \A k \in 1..Len(frames.items) : frames.items[k].type = "dict"

\* C22: normalize_ocr_keyframes never raises, and for an argument that is
\* None, empty, not JSON or not of the expected shape it returns the text
\* {"frames": []}.
C22_InvalidGivesEmptyFrames ==
    (ocr.active /\ pc = "normalized") =>
        /\ ocr.result.raised = ""
        /\ ~ExpectedShape(ocr.ocr_json_str) => ocr.result.text = "{\"frames\": []}"

\* The part of C22 that the code keeps: None, the empty string and text that
\* is not JSON give {"frames": []}.
C22_NoneEmptyUnparseable ==
    (ocr.active /\ pc = "normalized" /\ ~ocr.ocr_json_str.parses) =>
        ocr.result = Returned("{\"frames\": []}")

(***************************************************************************)
(* C25: the retry loop of call_gemini_json                                 *)
(***************************************************************************)
\* The first of the first n answers that carries text, 0 when none does.
FirstText(replies, n) ==
    IF \E k \in 1..n : replies[k].kind = "text"
    THEN CHOOSE k \in 1..n : replies[k].kind = "text"
                             /\ \A j \in 1..(k - 1) : replies[j].kind # "text"
    ELSE 0

\* The attempts of a finished call that failed: every call but a returning one.
FailedAttempts(r) == IF r.raised = "" THEN r.calls - 1 ELSE r.calls

\* The parts of C25 about the calls, the returned text and the sleeps.
RetriesAsStated(g) ==
    LET r == g.result
        k == FirstText(g.replies, g.max_retries)
    IN  /\ r.calls <= g.max_retries
        /\ k > 0 => r.raised = "" /\ r.text = g.replies[k].text /\ r.calls = k
        /\ k = 0 => r.raised = "RuntimeError" /\ r.calls = g.max_retries
        /\ r.sleeps = [i \in 1..FailedAttempts(r) |-> retry_base * i]
        /\ g.max_retries = 0 => r.raised = "RuntimeError" /\ r.calls = 0

\* C25 as stated: RuntimeError is raised only after exactly max_retries
\* failed attempts.
C25_RaisesOnlyAfterRetries ==
    (gemini.active /\ pc = "called" /\ gemini.result.raised = "RuntimeError") =>
        FailedAttempts(gemini.result) = gemini.max_retries

\* C25, amended: with GOOGLE_API_KEY configured, call_gemini_json makes at
\* most max_retries calls, returns the first non-empty text without a further
\* call, sleeps retry_base * (i + 1) after the i-th failed attempt, the last
\* one included, and raises RuntimeError exactly when all max_retries attempts
\* failed (at once when max_retries = 0); without the key it raises
\* RuntimeError before the loop, with no call and no sleep.
C25_RetryLoop ==
    (gemini.active /\ pc = "called") =>
        IF gemini.key THEN RetriesAsStated(gemini)
        ELSE /\ gemini.result.raised = "RuntimeError"
             /\ gemini.result.calls = 0
             /\ gemini.result.sleeps = <<>>

C25_Witness ==
    /\ gemini.active /\ pc = "called" /\ gemini.key
    /\ gemini.max_retries = 3
    /\ gemini.replies[1].kind = "empty" /\ gemini.replies[2].kind = "error"
    /\ \/ gemini.replies[3].kind = "text" /\ gemini.result.raised = ""
          /\ gemini.result.sleeps = <<15, 30>>
       \/ gemini.replies[3].kind = "empty" /\ gemini.result.raised = "RuntimeError"
          /\ gemini.result.sleeps = <<15, 30, 45>>

(***************************************************************************)
(* C23: empty answers of Gemini in the product research                    *)
(***************************************************************************)
\* Gemini answered every attempt of the call with empty text.
EveryAttemptEmpty(call) ==
    /\ call.calls = DEFAULT_MAX_RETRIES
    /\ Len(call.caught) = call.calls
    /\ \A k \in 1..Len(call.caught) : call.caught[k] = "EmptyGeminiResponseError"

Shown(msg) == \E k \in 1..Len(session.shown) : session.shown[k] = msg

\* C23: when Gemini returns empty text on every attempt of the product
\* research, call_gemini_json raises EmptyGeminiResponseError and the handler
\* shows "No facts were retrieved from Gemini. Please try again." and not
\* "Product research failed".
C23_EmptyAnswersWarn ==
    (session.active /\ session.pressed = "research" /\ EveryAttemptEmpty(session.call)) =>
        /\ session.call.raised = "EmptyGeminiResponseError"
        /\ Shown("No facts were retrieved from Gemini. Please try again.")
        /\ ~Shown("Product research failed")

\* What the code does instead: no run of the product research shows the
\* warning of the EmptyGeminiResponseError clause.
C23_WarningNeverShown ==
    session.active => ~Shown("No facts were retrieved from Gemini. Please try again.")

(***************************************************************************)
(* C24: the order of the pipeline in the session state                     *)
(***************************************************************************)
\* The keys of st.session_state, without what the last run showed.
Stored(s) ==
    <<s.analyzer_json_str, s.analyzer_parsed, s.script_json_str, s.script_parsed,
      s.product_research, s.claims_text, s.forbidden_text, s.disclaimers_text,
      s.product_page_text>>

\* C24: the export runs only when both JSON strings are non-empty, and then
\* analyzer_parsed and script_parsed are both not None.
C24_ExportHasBothParsed ==
    (session.active /\ session.export.ran) =>
        /\ ~session.analyzer_json_str.empty /\ ~session.script_json_str.empty
        /\ session.export.analyzer # JNull
        /\ session.export.script # JNull

\* The part of C24 about the script generator: without an analyzer result it
\* calls nothing, warns and leaves the session state as it was.
C24_ScriptNeedsAnalyzer ==
    [][(session.active /\ session'.pressed = "script" /\ session.analyzer_json_str.empty) =>
         /\ session'.call = NoCall
         /\ Stored(session') = Stored(session)
         /\ session'.shown[1] = "Run the Analyzer first."]_vars

\* The part of C24 about the export that the code keeps: it runs exactly
\* when both JSON strings are non-empty, and analyzer_parsed is then not None.
C24_ExportNeedsBothStrings ==
    session.active =>
        /\ session.export.ran <=>
               (~session.analyzer_json_str.empty /\ ~session.script_json_str.empty)
        /\ session.export.ran => session.export.analyzer # JNull

(***************************************************************************)
(* C26: the two loops over the lines terminate                             *)
(***************************************************************************)
\* The loop of lines 196-217 is about to run an iteration.
InSummaryLoop == brief.active /\ pc = "summary" /\ brief.i <= Len(brief.summary_lines)

\* The loop of lines 224-256 is about to run an iteration.
InStoryboardLoop == brief.active /\ pc = "storyboard" /\ brief.i <= Len(brief.lines)

\* One iteration moves i forward: by one line outside a table, and in the
\* table branch to an index at least two further and at most one past the end.
IndexAdvances ==
    /\ InSummaryLoop => brief'.i = brief.i + 1
    /\ InStoryboardLoop =>
         IF startswith(brief.lines[brief.i], <<PIPE>>)
            /\ brief.i + 1 <= Len(brief.lines)
            /\ IsSeparator(brief.lines[brief.i + 1])
         THEN brief'.i >= brief.i + 2 /\ brief'.i <= Len(brief.lines) + 1
         ELSE brief'.i = brief.i + 1

\* What is left of make_brief_pdf: the loops still to run, the lines of the
\* current loop still to walk, the steps of the current _render_table call
\* still to take.
Rank ==
    << CASE pc = "summary" -> 2
         [] pc \in {"output", "raised", "image_error"} -> 0
         [] OTHER -> 1,
       IF pc = "summary" THEN Len(brief.summary_lines) + 1 - brief.i
       ELSE Len(brief.lines) + 1 - brief.i,
       CASE pc = "call" -> Len(rows) + 4
         [] pc = "header" -> Len(rows) + 3
         [] pc = "rows" -> Len(rows) + 3 - row_i
         [] pc = "done" -> 1
         [] OTHER -> 0 >>

\* a comes before b in the lexicographic order of the triples of naturals.
LexLess(a, b) ==
    /\ \A k \in 1..3 : a[k] >= 0
    /\ \E k \in 1..3 : a[k] < b[k] /\ \A j \in 1..(k - 1) : a[j] = b[j]

\* C26: both loops of make_brief_pdf terminate: every iteration strictly
\* increases i (the table branch by at least 2 and never past the end of the
\* lines, every other branch by one line), and every step of make_brief_pdf
\* lowers a rank that cannot fall forever, so no run goes on without end.
C26_LoopsTerminate ==
    [][brief.active => IndexAdvances /\ LexLess(Rank', Rank)]_vars

C26_Witness ==
    /\ brief.active /\ pc = "output"
    /\ brief.i = Len(brief.lines) + 1
    /\ Len(brief.lines) = 4 + MaxRows
    /\ Len(placed) = 1 + MaxRows

(***************************************************************************)
(* C27: the borders of a row's cells                                       *)
(***************************************************************************)
\* The edges a border argument of multi_cell draws.
Edges(border) ==
    CASE border = "LTRB" -> {"L", "T", "R", "B"}
      [] border = "LTR" -> {"L", "T", "R"}
      [] border = "LBR" -> {"L", "B", "R"}
      [] border = "LR" -> {"L", "R"}
      [] OTHER -> {}

\* The slots drawn for the text cells of the row placed as placed[i].
TextSlots(i) == CellsOf(i) \ ImageOps

\* The line slots of the row placed as placed[i], whose slots are h high.
MaxLines(i, h) == placed[i].height \div h

\* The rule of lines 350-357 on the slots drawn: left and right on every slot,
\* top on slot 0 only, bottom on the last slot only.
BorderRule(i) ==
    \A j \in TextSlots(i) :
        /\ {"L", "R"} \subseteq Edges(log[j].border)
        /\ "T" \in Edges(log[j].border) <=> log[j].line = 0
        /\ "B" \in Edges(log[j].border) <=> log[j].line = MaxLines(i, log[j].h) - 1

\* Every text cell of the row has each of its slots drawn once, the slots
\* beyond its own lines as empty text.
EverySlotDrawn(i) ==
    \A j \in TextSlots(i) :
        \A k \in 0..(MaxLines(i, log[j].h) - 1) :
            Cardinality({ m \in TextSlots(i) : log[m].col = log[j].col /\ log[m].line = k }) = 1

\* The slots of the row lie one below the other where the row was placed, so
\* that the edges drawn meet: one box per cell, one top and one bottom edge
\* for the row.
SlotsStacked(i) ==
    \A j \in TextSlots(i) :
        /\ log[j].page = placed[i].page
        /\ log[j].y = placed[i].y + log[j].line * log[j].h

\* C27: for every text cell of a row the borders drawn over its slots form
\* one closed box: top on slot 0 only, bottom on the last slot only, left and
\* right on every slot, empty slots drawn with the same borders, so that the
\* cells of a row share one top and one bottom edge.
C27_ClosedBoxes ==
    \A i \in PlacedIdx : BorderRule(i) /\ EverySlotDrawn(i) /\ SlotsStacked(i)

\* The part of C27 that the code keeps: the border letters and the empty
\* slots, for every row, and the closed boxes for every row that ends above
\* the page-break trigger.
C27_BordersPerSlot ==
    \A i \in PlacedIdx :
        /\ BorderRule(i)
        /\ EverySlotDrawn(i)
        /\ placed[i].y + placed[i].height <= pdf.trigger => SlotsStacked(i)

\* A row of several slots above the trigger in which a cell that has run out
\* of lines stands next to one that has not: both close the box.
C27_Reached ==
    \E i \in PlacedIdx :
        /\ placed[i].y + placed[i].height <= pdf.trigger
        /\ \E j, k \in TextSlots(i) :
            /\ log[j].line >= 1 /\ log[j].line = MaxLines(i, log[j].h) - 1
            /\ log[k].line = log[j].line
            /\ log[j].chars = 0 /\ log[j].border = "LBR"
            /\ log[k].chars > 0 /\ log[k].border = "LBR"

(***************************************************************************)
(* C28: the font of header rows and data rows                              *)
(***************************************************************************)
\* The style a row of this kind is to be measured and drawn in.
StyleOf(kind) == IF kind = "header" THEN "B" ELSE ""

\* The cells drawn by _render_table: header rows and data rows.
TableOps == { j \in LogIdx : log[j].kind \in {"header", "row"} }

\* C28: in _render_table every header row, the first and the repeated ones, is
\* measured and drawn in bold at the table's font size, every data row is
\* measured and drawn in the regular style at that size, and the font is
\* regular when _render_table returns.
C28_FontState ==
    /\ \A m \in MeasuredIdx :
           measured[m].style = StyleOf(measured[m].kind) /\ measured[m].size = font_size
    /\ \A j \in TableOps :
           log[j].style = StyleOf(log[j].kind) /\ log[j].size = font_size
    /\ pc = "done" => pdf.style = "" /\ pdf.size = font_size

\* A table at a reduced font size whose header is repeated after a page
\* break, the row behind it drawn in the regular style.
C28_Witness ==
    /\ pc = "done" /\ font_size < 12
    /\ \E j, k \in TableOps :
        /\ log[j].kind = "header" /\ log[j].row >= 1 /\ log[j].style = "B"
        /\ log[k].kind = "row" /\ log[k].row = log[j].row /\ log[k].style = ""
        /\ j < k /\ log[k].page = log[j].page
    /\ \E m \in MeasuredIdx : measured[m].kind = "row" /\ measured[m].row >= 2

(***************************************************************************)
(* C29: the rows of _scenes_table read back by _parse_table_block          *)
(***************************************************************************)
\* The values _scenes_table formats into the row of scene s, in column order.
SanitisedFields(s) ==
    <<safe(TimestampOf(num(s.start_s), num(s.end_s))), safe(s.shot), safe(s.framing),
      safe(s.action), safe(s.dialogue_vo), safe(<<>>), safe(ThumbOf(s))>>

\* The row of scene k has the header's column count and holds the scene's fields.
ReadsBack(k) ==
    /\ Len(BodyRows(brief.lines)[k]) = Len(SceneHeaders)
    /\ BodyRows(brief.lines)[k] = SanitisedFields(brief.scenes[k])

HasPipe(s) == \E f \in 1..Len(SanitisedFields(s)) :
                  \E j \in 1..Len(SanitisedFields(s)[f]) : SanitisedFields(s)[f][j] = PIPE

\* C29: every body row that _scenes_table emits parses back, through
\* _parse_table_block, into exactly 7 cells whose values are the scene's
\* sanitised fields in column order, for every scene, a field with the '|'
\* character included.
C29_RowsReadBack ==
    (brief.active /\ brief.scenes # <<>>) =>
        /\ Len(BodyRows(brief.lines)) = Len(brief.scenes)
        /\ \A k \in 1..Len(brief.scenes) : ReadsBack(k)

\* What the code keeps: the rows of scenes without a '|' in a field read back.
C29_PipeFreeRowsReadBack ==
    (brief.active /\ brief.scenes # <<>>) =>
        \A k \in 1..Len(brief.scenes) : ~HasPipe(brief.scenes[k]) => ReadsBack(k)

\* The table of a scene with a '|' in its action has been parsed and rendered:
\* its row has more cells than the header.
C29_PipeRowRendered ==
    /\ brief.active /\ BriefEnded /\ Len(brief.scenes) = 1
    /\ HasPipe(brief.scenes[1])
    /\ Len(BodyRows(brief.lines)[1]) > Len(SceneHeaders)

====
